---------------------------- MODULE Spec2Model ----------------------------
(***************************************************************************)
(* Feedback aggregation worker (my-first-worker/src/index.js) and its      *)
(* notification workflow (src/workflow.js).                                *)
(*                                                                         *)
(* State: the D1 table feedback, the Vectorize index, the requests in    *)
(* flight (one position per await), and one workflow run.                  *)
(*                                                                         *)
(* Text is a sequence of one-character strings wherever the code looks     *)
(* inside it (record ids, the id query parameter); scores are hundredths   *)
(* (0.6 is 60).                                                            *)
(***************************************************************************)
EXTENDS Integers, Sequences, FiniteSets, TLC

VARIABLES
    feedback,   \* the rows of table feedback, in rowid order (D1)
    vectors,    \* the Vectorize index: id string -> stored vector
    sim,        \* the GET /api/similar-feedback request in flight
    post,       \* the POST /api/feedback requests, by request number
    bf,         \* the POST /api/backfill-embeddings runs, by run number
    created,    \* the payloads FEEDBACK_WORKFLOW.create accepted
    wf,         \* the notification workflow run
    http,       \* the requests fetch has routed, with their responses
    features,   \* the calls of extractKeywords on one list of messages, or
                \* the GET /api/analyze-features request in flight
    listing     \* the GET /api/feedback request in flight

vars == <<feedback, vectors, sim, post, bf, created, wf, http, features, listing>>

-----------------------------------------------------------------------------
(* Bounds of the model *)

\* rows in the table when a similarity lookup is made
MaxSimRecords == 7

-----------------------------------------------------------------------------
(* Program constants *)

\* topK of the index query
TopK == 6
\* slice(0, 5)
MaxSimilar == 5
\* match.score >= 0.6, in hundredths
Threshold == 60

-----------------------------------------------------------------------------
(* Values of the variables of the parts that are not running *)

NoCall == [pc |-> "idle", list |-> <<>>, results |-> <<>>]

\* The GET /api/feedback request before it has arrived; sourceStats and
\* sentimentStats map a value of the column to the count of its group
GfIdle == [pc |-> "idle", results |-> {}, sourceStats |-> <<>>,
           sentimentStats |-> <<>>, total |-> 0, status |-> 0, keys |-> {},
           failed |-> ""]

-----------------------------------------------------------------------------
(* Text: decimal strings *)

Digits == <<"0", "1", "2", "3", "4", "5", "6", "7", "8", "9">>

IsDigit(c) == \E d \in 1..10 : Digits[d] = c

DigitVal(c) == (CHOOSE d \in 1..10 : Digits[d] = c) - 1

\* Number.prototype.toString of a row id (a positive integer)
RECURSIVE ToStr(_)
ToStr(n) == IF n < 10 THEN <<Digits[n + 1]>>
            ELSE Append(ToStr(n \div 10), Digits[(n % 10) + 1])

RECURSIVE DecVal(_)
DecVal(s) == IF s = <<>> THEN 0
             ELSE 10 * DecVal(SubSeq(s, 1, Len(s) - 1)) + DigitVal(s[Len(s)])

\* A text value the INTEGER column's affinity turns into an integer
IsIntText(s) == Len(s) > 0 /\ \A i \in 1..Len(s) : IsDigit(s[i])

-----------------------------------------------------------------------------
(* The feedback table *)

POSITIVE == <<"p", "o", "s", "i", "t", "i", "v", "e">>
NEGATIVE == <<"n", "e", "g", "a", "t", "i", "v", "e">>
NEUTRAL == <<"n", "e", "u", "t", "r", "a", "l">>

Sentiments == {POSITIVE, NEGATIVE, NEUTRAL}

\* A rowid that is handed out again: that of the last row stored
NextRowIdReused(rows) == IF Len(rows) = 0 THEN 1 ELSE Len(rows)

\* INTEGER PRIMARY KEY: the new rowid is one more than the largest
NextRowId(rows) == Len(rows) + 1

Row(i, src, msg, snt) == [id |-> i, source |-> src, message |-> msg, sentiment |-> snt]

\* SELECT * FROM feedback WHERE id = ? bound to a text value: the column has
\* INTEGER affinity, so the text is compared as the integer it spells
SelectById(rows, idText) ==
    IF IsIntText(idText)
    THEN SelectSeq(rows, LAMBDA r : r.id = DecVal(idText))
    ELSE <<>>

\* SELECT * FROM feedback WHERE id IN (?, ...): rows come back in rowid order
SelectByIds(rows, idTexts) ==
    SelectSeq(rows, LAMBDA r :
        \E k \in 1..Len(idTexts) : IsIntText(idTexts[k]) /\ r.id = DecVal(idTexts[k]))

-----------------------------------------------------------------------------
(* The vector index *)

Scores == {59, 60, 95}

\* The stored vector of a row: what was embedded, the metadata snapshot, and
\* the write that stored it (standing for metadata.timestamp)
Vector(msg, src, snt, stamp) ==
    [values |-> msg, metadata |-> [source |-> src, sentiment |-> snt, timestamp |-> stamp]]

\* a ranks before b in a query result: higher score first; equal scores in
\* one of the two id orders, the index's choice
RanksBefore(a, b, score, tieAsc) ==
    \/ score[a] > score[b]
    \/ /\ score[a] = score[b]
       /\ IF tieAsc THEN DecVal(a) < DecVal(b) ELSE DecVal(a) > DecVal(b)

\* VECTORIZE.query(embedding, {topK}): the k best of the indexed ids, ranked
RECURSIVE Query(_, _, _, _)
Query(ids, k, score, tieAsc) ==
    IF k = 0 \/ ids = {} THEN <<>>
    ELSE LET best == CHOOSE a \in ids :
                        \A b \in ids \ {a} : RanksBefore(a, b, score, tieAsc)
         IN  <<[id |-> best, score |-> score[best]]>>
                 \o Query(ids \ {best}, k - 1, score, tieAsc)

-----------------------------------------------------------------------------
(* GET /api/similar-feedback *)

Take(s, n) == SubSeq(s, 1, IF Len(s) < n THEN Len(s) ELSE n)

\* The filter with the score test left out
SimilarMatchesNoThreshold(matches, feedbackId) ==
    Take(SelectSeq(matches, LAMBDA m : m.id # feedbackId), MaxSimilar)

\* matches.filter(match.id !== feedbackId && match.score >= 0.6).slice(0, 5)
SimilarMatches(matches, feedbackId) ==
    Take(SelectSeq(matches, LAMBDA m : m.id # feedbackId /\ m.score >= Threshold),
         MaxSimilar)

SimIdle == [pc |-> "idle", id |-> <<>>, hasId |-> FALSE, original |-> <<>>,
            matches |-> <<>>, beyond |-> <<>>,
            embedCalls |-> 0, queryCalls |-> 0, failed |-> "",
            status |-> 0, keys |-> {}, similar |-> <<>>, scores |-> <<>>]

\* The values of the id query parameter that are tried
IdParams == {<<>>, <<"1">>, <<"0", "1">>, <<"2">>, <<"x">>, <<"9", "9">>}

SimRespond(status, keys, similar, scores) ==
    sim' = [sim EXCEPT !.pc = "done", !.status = status, !.keys = keys,
                       !.similar = similar, !.scores = scores]

\* The catch of the handler: the call named threw
SimThrow(call, embedCalls, queryCalls) ==
    sim' = [sim EXCEPT !.pc = "done", !.status = 500, !.keys = {"error", "details"},
                       !.failed = call, !.embedCalls = @ + embedCalls,
                       !.queryCalls = @ + queryCalls]

\* url.searchParams.get("id"); 400 when it is null or empty
SimRequest ==
    /\ sim.pc = "idle"
    /\ \E hasId \in BOOLEAN : \E id \in IdParams :
          /\ hasId \/ id = <<>>
          /\ IF ~hasId \/ id = <<>>
             THEN sim' = [sim EXCEPT !.pc = "done", !.status = 400, !.keys = {"error"},
                                     !.id = id, !.hasId = hasId]
             ELSE sim' = [sim EXCEPT !.pc = "lookup", !.id = id, !.hasId = hasId]
    /\ UNCHANGED <<listing, http, features, feedback, vectors, post, bf, created, wf>>

\* The lookup without the test for an empty result
SimLookupNoCheck ==
    /\ sim.pc = "lookup"
    /\ \/ LET results == SelectById(feedback, sim.id)
          IN  sim' = [sim EXCEPT !.pc = "embed", !.original = results]
       \/ SimThrow("lookup", 0, 0)
    /\ UNCHANGED <<listing, http, features, feedback, vectors, post, bf, created, wf>>

\* SELECT * FROM feedback WHERE id = ?; 404 when no row; 500 when it throws
SimLookup ==
    /\ sim.pc = "lookup"
    /\ \/ LET results == SelectById(feedback, sim.id)
          IN  IF Len(results) = 0
              THEN SimRespond(404, {"error"}, <<>>, <<>>)
              ELSE sim' = [sim EXCEPT !.pc = "embed", !.original = <<results[1]>>]
       \/ SimThrow("lookup", 0, 0)
    /\ UNCHANGED <<listing, http, features, feedback, vectors, post, bf, created, wf>>

\* A lookup that stores the vector it computed under the id of the original
SimEmbedStores ==
    /\ sim.pc = "embed"
    /\ \/ /\ sim' = [sim EXCEPT !.pc = "query", !.embedCalls = @ + 1]
          /\ vectors' = (ToStr(sim.original[1].id) :>
                            Vector("msg", "Discord", sim.original[1].sentiment, "lookup"))
                         @@ vectors
       \/ /\ SimThrow("embedding", 1, 0)
          /\ UNCHANGED vectors
    /\ UNCHANGED <<listing, http, features, feedback, post, bf, created, wf>>

\* generateEmbedding(originalFeedback.message): the vector, or it throws
SimEmbed ==
    /\ sim.pc = "embed"
    /\ \/ sim' = [sim EXCEPT !.pc = "query", !.embedCalls = @ + 1]
       \/ SimThrow("embedding", 1, 0)
    /\ UNCHANGED <<listing, http, features, feedback, vectors, post, bf, created, wf>>

\* VECTORIZE.query, then the filter; with no id left the 200 response has no
\* scores member. beyond keeps what the index ranks behind the matches returned
SimQuery ==
    /\ sim.pc = "query"
    /\ \/ \E score \in [DOMAIN vectors -> Scores] : \E tieAsc \in BOOLEAN :
          \E matches \in {Query(DOMAIN vectors, TopK, score, tieAsc)} :
          \E beyond \in {Query(DOMAIN vectors \ {matches[k].id : k \in 1..Len(matches)},
                               Cardinality(DOMAIN vectors), score, tieAsc)} :
             IF Len(SimilarMatches(matches, sim.id)) = 0
             THEN sim' = [sim EXCEPT !.pc = "done", !.queryCalls = @ + 1,
                                     !.matches = matches, !.beyond = beyond,
                                     !.status = 200,
                                     !.keys = {"original", "similar", "message"}]
             ELSE sim' = [sim EXCEPT !.pc = "hydrate", !.queryCalls = @ + 1,
                                     !.matches = matches, !.beyond = beyond]
       \/ SimThrow("query", 0, 1)
    /\ UNCHANGED <<listing, http, features, feedback, vectors, post, bf, created, wf>>

\* SELECT * FROM feedback WHERE id IN (...), then the 200 response
SimHydrate ==
    /\ sim.pc = "hydrate"
    /\ \/ LET kept == SimilarMatches(sim.matches, sim.id)
              ids  == [k \in 1..Len(kept) |-> kept[k].id]
          IN  SimRespond(200, {"original", "similar", "scores"},
                         SelectByIds(feedback, ids), kept)
       \/ SimThrow("hydrate", 0, 0)
    /\ UNCHANGED <<listing, http, features, feedback, vectors, post, bf, created, wf>>

handleSimilarFeedback == SimRequest \/ SimLookup \/ SimEmbed \/ SimQuery \/ SimHydrate

-----------------------------------------------------------------------------
(* Similarity lookups over a table of n rows of which any may be indexed *)

SeedRow(i) == Row(i, "Discord", "msg", NEUTRAL)

SimInit ==
    /\ \E n \in 0..MaxSimRecords :
          /\ feedback = [i \in 1..n |-> SeedRow(i)]
          /\ \E indexed \in SUBSET (1..n) :
                vectors = [s \in {ToStr(i) : i \in indexed} |->
                              Vector("msg", "Discord", NEUTRAL, "backfill")]
    /\ sim = SimIdle
    /\ post = <<>>
    /\ bf = <<>>
    /\ created = <<>>
    /\ http = <<>>
    /\ listing = GfIdle
    /\ features = NoCall
    /\ wf = <<>>

SimNext == handleSimilarFeedback

SimSpec == SimInit /\ [][SimNext]_vars

-----------------------------------------------------------------------------
(* JavaScript values and model output *)

\* A JavaScript value: its kind and its text
Js(k, v) == [k |-> k, v |-> v]
Undefined == Js("undefined", "")
Str(v) == Js("string", v)
Num(v) == Js("number", v)

\* x || d picks d for undefined, null, "", 0, false
Truthy(x) ==
    ~ \/ x.k \in {"undefined", "null"}
      \/ x.k = "string" /\ x.v = ""
      \/ x.k = "number" /\ x.v = "0"
      \/ x.k = "boolean" /\ x.v = "false"

OrElse(x, d) == IF Truthy(x) THEN x ELSE d

\* A JSON object with the members the urgency prompt asks for; a member that
\* is left out reads as undefined
Obj(level, confidence, reason, category) ==
    [t |-> "object", level |-> level, confidence |-> confidence,
     reason |-> reason, category |-> category]

\* JSON values without members: property access on them gives undefined,
\* except on null, where it throws
Plain(t) == [t |-> t, level |-> Undefined, confidence |-> Undefined,
             reason |-> Undefined, category |-> Undefined]

Garbage == Plain("garbage")

\* The text of a model answer, as tokens: code fences, JSON values, other text
FenceOpen == Plain("fence json")
FenceClose == Plain("fence")

IsFence(tok) == tok.t \in {"fence json", "fence"}

\* responseText.replace(<the code fences>, "").trim()
StripFences(text) == SelectSeq(text, LAMBDA tok : ~IsFence(tok))

\* JSON.parse: one well-formed value and nothing else, or it throws
ParseOk(text) == Len(text) = 1 /\ text[1].t # "garbage"

\* What env.AI.run gives: it throws, or resolves to an object whose response
\* member is missing, not a string, or a text
AiThrows == [kind |-> "throws", text |-> <<>>]
AiMissing == [kind |-> "missing", text |-> <<>>]
AiNotString == [kind |-> "notstring", text |-> <<>>]
AiText(text) == [kind |-> "text", text |-> text]

UrgencyObjects ==
    {Obj(l, c, Str("why"), Str("Bug")) :
        l \in {Str("CRITICAL"), Str("HIGH"), Str("NORMAL"), Str("URGENT"), Str("high")},
        c \in {Num("90"), Num("0")}}
    \cup {Obj(Undefined, Undefined, Undefined, Undefined),
          Obj(Str(""), Num("90"), Str("why"), Str("Bug")),
          Obj(Str("HIGH"), Undefined, Undefined, Undefined),
          Obj(Js("null", ""), Num("90"), Str("why"), Str("Bug"))}

UrgencyOutcomes ==
    {AiThrows, AiMissing, AiNotString, AiText(<<>>), AiText(<<Garbage>>)}
    \cup {AiText(<<Plain(t)>>) : t \in {"null", "array", "number", "string"}}
    \cup {AiText(<<o>>) : o \in UrgencyObjects}
    \cup {AiText(<<FenceOpen, o, FenceClose>>) :
             o \in {Obj(Str("CRITICAL"), Num("90"), Str("why"), Str("Bug")), Garbage}}
    \cup {AiText(<<Garbage, Obj(Str("HIGH"), Num("90"), Str("why"), Str("Bug"))>>)}

-----------------------------------------------------------------------------
(* analyzeSentiment *)

UpperCase == <<"A", "E", "G", "I", "N", "O", "P", "S", "T", "V">>
LowerCase == <<"a", "e", "g", "i", "n", "o", "p", "s", "t", "v">>

LowerChar(c) ==
    IF \E k \in 1..Len(UpperCase) : UpperCase[k] = c
    THEN LowerCase[CHOOSE k \in 1..Len(UpperCase) : UpperCase[k] = c]
    ELSE c

\* String.prototype.toLowerCase
ToLowerCase(s) == [k \in 1..Len(s) |-> LowerChar(s[k])]

\* String.prototype.trim
RECURSIVE Trim(_)
Trim(s) == IF s = <<>> THEN s
           ELSE IF s[1] = " " THEN Trim(Tail(s))
           ELSE IF s[Len(s)] = " " THEN Trim(SubSeq(s, 1, Len(s) - 1))
           ELSE s

\* String.prototype.includes
Includes(s, sub) ==
    \E k \in 1..(Len(s) - Len(sub) + 1) : SubSeq(s, k, k + Len(sub) - 1) = sub

\* The answers of the sentiment model that are tried
SentimentTexts ==
    {<<"P", "o", "s", "i", "t", "i", "v", "e">>,
     <<" ", "N", "E", "G", "A", "T", "I", "V", "E", " ">>,
     <<"n", "e", "u", "t", "r", "a", "l">>,
     <<"n", "o", "t", " ", "p", "o", "s", "i", "t", "i", "v", "e">>,
     <<"n", "e", "g", "a", "t", "i", "v", "e", ",", " ", "n", "o", "t", " ", "p", "o", "s", "i", "t", "i", "v", "e">>,
     <<"m", "i", "x", "e", "d">>,
     <<"N", "E", "G", "A", "T", "I", "V", "E", ".">>,
     <<>>, <<" ">>}

SentimentOutcomes ==
    {AiThrows, AiMissing, AiNotString} \cup {AiText(t) : t \in SentimentTexts}

\* analyzeSentiment handing back the model's word without the includes tests
analyzeSentimentUnchecked(out) ==
    IF out.kind \in {"throws", "notstring"} THEN NEUTRAL
    ELSE LET answer == IF out.kind = "missing" THEN <<>>
                       ELSE Trim(ToLowerCase(out.text))
         IN  IF answer = <<>> THEN NEUTRAL ELSE answer

\* analyzeSentiment: response.response?.toLowerCase().trim() || "neutral",
\* then the includes tests; "neutral" when anything throws
analyzeSentiment(out) ==
    IF out.kind \in {"throws", "notstring"} THEN NEUTRAL
    ELSE LET answer    == IF out.kind = "missing" THEN <<>>
                          ELSE Trim(ToLowerCase(out.text))
             sentiment == IF answer = <<>> THEN NEUTRAL ELSE answer
         IN  IF Includes(sentiment, POSITIVE) THEN POSITIVE
             ELSE IF Includes(sentiment, NEGATIVE) THEN NEGATIVE
             ELSE NEUTRAL

-----------------------------------------------------------------------------
(* Writes to the vector index *)

\* An insert that resolves for a new id without the vector being stored
InsertOutcomesLost(vecs, id, vec) ==
    IF id \in DOMAIN vecs
    THEN {[vectors |-> vecs, ok |-> FALSE, why |-> "duplicate"],
          [vectors |-> vecs, ok |-> TRUE, why |-> "kept"],
          [vectors |-> vecs, ok |-> FALSE, why |-> "outage"]}
    ELSE {[vectors |-> vecs, ok |-> TRUE, why |-> "stored"],
          [vectors |-> vecs, ok |-> FALSE, why |-> "outage"]}

\* What VECTORIZE.insert of one vector can do. For an id the index already
\* holds it does not replace the vector: the call is rejected (as the
\* repository's notes on Vectorize report) or resolves leaving the stored
\* vector as it is. Any call can also fail for reasons of the service.
InsertOutcomes(vecs, id, vec) ==
    IF id \in DOMAIN vecs
    THEN {[vectors |-> vecs, ok |-> FALSE, why |-> "duplicate"],
          [vectors |-> vecs, ok |-> TRUE, why |-> "kept"],
          [vectors |-> vecs, ok |-> FALSE, why |-> "outage"]}
    ELSE {[vectors |-> (id :> vec) @@ vecs, ok |-> TRUE, why |-> "stored"],
          [vectors |-> vecs, ok |-> FALSE, why |-> "outage"]}

-----------------------------------------------------------------------------
(* POST /api/feedback *)

\* requests (submissions and backfill runs together) of the worker as a whole
MaxRequests == 2
\* rows stored before the first request
MaxSeed == 1
\* submissions when only submissions are made
MaxPosts == 1
\* rows in the table when only backfill runs are made
MaxBfRecords == 6

\* A request body: source and message ("" when missing or empty) and whether
\* the caller put a sentiment member of its own in it
Body(source, message, extra) == [source |-> source, message |-> message, extra |-> extra]

Bodies == {Body(s, m, x) : s \in {"", "Discord"}, m \in {"", "msg"}, x \in {"", "great"}}

PostNew(body) ==
    [pc |-> "sentiment", body |-> body, parsed |-> TRUE, ai |-> AiThrows,
     sentiment |-> <<>>, aiCalls |-> 0, clean |-> TRUE, id |-> 0, failed |-> {},
     status |-> 0, keys |-> {}]

PostAnswer(r, status, keys) ==
    post' = [post EXCEPT ![r].pc = "done", ![r].status = status, ![r].keys = keys]

\* The request arrives: request.json(), then the test on source and message;
\* a valid request goes on to call the sentiment model. A body that is no
\* JSON, or is JSON null, makes request.json() or the destructuring throw:
\* the outer catch answers 500
PostReceive(bodies, limit) ==
    /\ Len(post) + Len(bf) < limit
    /\ \/ \E body \in bodies :
             IF body.source = "" \/ body.message = ""
             THEN post' = Append(post, [PostNew(body) EXCEPT
                                 !.pc = "done", !.status = 400, !.keys = {"error"}])
             ELSE post' = Append(post, PostNew(body))
       \/ post' = Append(post, [PostNew(Body("", "", "")) EXCEPT
                          !.pc = "done", !.parsed = FALSE, !.status = 500,
                          !.keys = {"error", "details"}])
    /\ UNCHANGED <<listing, http, features, feedback, vectors, sim, bf, created, wf>>

\* analyzeSentiment settles; the INSERT is issued with its result
PostSentiment(r, outcomes) ==
    /\ post[r].pc = "sentiment"
    /\ \E out \in outcomes :
          post' = [post EXCEPT ![r].pc = "insert", ![r].ai = out,
                               ![r].aiCalls = @ + 1,
                               ![r].sentiment = analyzeSentiment(out),
                               ![r].clean = (out.kind = "text" /\ out.text \in Sentiments)]
    /\ UNCHANGED <<listing, http, features, feedback, vectors, sim, bf, created, wf>>

\* An INSERT that answers with a rowid although no row was stored
PostInsertLost(r) ==
    /\ post[r].pc = "insert"
    /\ \/ post' = [post EXCEPT ![r].pc = "embed", ![r].id = NextRowId(feedback)]
       \/ PostAnswer(r, 500, {"error", "details"})
    /\ UNCHANGED <<listing, http, features, feedback, vectors, sim, bf, created, wf>>

\* An INSERT whose failure is logged and the request goes on without an id
PostInsertGoesOn(r) ==
    /\ post[r].pc = "insert"
    /\ \/ LET feedbackId == NextRowId(feedback)
          IN  /\ feedback' = Append(feedback,
                     Row(feedbackId, post[r].body.source, post[r].body.message,
                         post[r].sentiment))
              /\ post' = [post EXCEPT ![r].pc = "embed", ![r].id = feedbackId]
       \/ /\ post' = [post EXCEPT ![r].pc = "embed"]
          /\ UNCHANGED feedback
    /\ UNCHANGED <<listing, http, features, vectors, sim, bf, created, wf>>

\* The INSERT settles: the row is stored under the next rowid, or it throws
\* and the request is answered 500
PostInsert(r) ==
    /\ post[r].pc = "insert"
    /\ \/ LET feedbackId == NextRowId(feedback)
          IN  /\ feedback' = Append(feedback,
                     Row(feedbackId, post[r].body.source, post[r].body.message,
                         post[r].sentiment))
              /\ post' = [post EXCEPT ![r].pc = "embed", ![r].id = feedbackId]
       \/ /\ PostAnswer(r, 500, {"error", "details"})
          /\ UNCHANGED feedback
    /\ UNCHANGED <<listing, http, features, vectors, sim, bf, created, wf>>

\* generateEmbedding settling with no try around it: a throw reaches the outer
\* catch and the request is answered 500
PostEmbedUncaught(r) ==
    /\ post[r].pc = "embed"
    /\ \/ post' = [post EXCEPT ![r].pc = "vector"]
       \/ post' = [post EXCEPT ![r].pc = "done", ![r].status = 500,
                               ![r].keys = {"error", "details"},
                               ![r].failed = @ \cup {"embedding"}]
    /\ UNCHANGED <<listing, http, features, feedback, vectors, sim, bf, created, wf>>

\* generateEmbedding settles; when it throws the inner catch goes on to the
\* workflow
PostEmbed(r) ==
    /\ post[r].pc = "embed"
    /\ \/ post' = [post EXCEPT ![r].pc = "vector"]
       \/ post' = [post EXCEPT ![r].pc = "workflow", ![r].failed = @ \cup {"embedding"}]
    /\ UNCHANGED <<listing, http, features, feedback, vectors, sim, bf, created, wf>>

\* VECTORIZE.insert settles; a rejection is caught and logged
PostVector(r) ==
    /\ post[r].pc = "vector"
    /\ \E o \in InsertOutcomes(vectors, ToStr(post[r].id),
                    Vector(post[r].body.message, post[r].body.source,
                           post[r].sentiment, "post")) :
          /\ vectors' = o.vectors
          /\ post' = [post EXCEPT ![r].pc = "workflow",
                         ![r].failed = IF o.ok THEN @ ELSE @ \cup {"vector"}]
    /\ UNCHANGED <<listing, http, features, feedback, sim, bf, created, wf>>

\* FEEDBACK_WORKFLOW.create settles (a rejection is caught and logged) and the
\* 201 response is returned
PostWorkflow(r) ==
    /\ post[r].pc = "workflow"
    /\ \/ /\ created' = Append(created, [feedbackId |-> post[r].id,
                                          sentiment |-> post[r].sentiment])
          /\ PostAnswer(r, 201, {"success", "id", "sentiment"})
       \/ /\ UNCHANGED created
          /\ post' = [post EXCEPT ![r].pc = "done", ![r].status = 201,
                         ![r].keys = {"success", "id", "sentiment"},
                         ![r].failed = @ \cup {"workflow"}]
    /\ UNCHANGED <<listing, http, features, feedback, vectors, sim, bf, wf>>

handlePostFeedback(bodies, outcomes, limit) ==
    \/ PostReceive(bodies, limit)
    \/ \E r \in 1..Len(post) : PostSentiment(r, outcomes)
    \/ \E r \in 1..Len(post) : PostInsert(r)
    \/ \E r \in 1..Len(post) : PostEmbed(r)
    \/ \E r \in 1..Len(post) : PostVector(r)
    \/ \E r \in 1..Len(post) : PostWorkflow(r)

-----------------------------------------------------------------------------
(* POST /api/backfill-embeddings *)

\* const batchSize = 5
BatchSize == 5

Min(a, b) == IF a < b THEN a ELSE b

\* A run: the rows read, the loop index, the tasks of the batch in flight and
\* the counters; started (the ids whose task was started, in order), finished
\* (tasks settled) and failedCalls (calls that threw) record what was done
BfNew == [pc |-> "read", all |-> <<>>, i |-> 0, task |-> <<>>, processed |-> 0,
          errors |-> 0, batches |-> 0, outage |-> FALSE, rerun |-> FALSE,
          status |-> 0, keys |-> {}, success |-> FALSE, total |-> 0,
          started |-> <<>>, finished |-> 0, failedCalls |-> 0]

\* The ids of the rows allFeedback.slice(i, i + batchSize) hands to batch.map
BatchIds(all, i) == [k \in 1..Min(BatchSize, Len(all) - i) |-> all[i + k].id]

\* The tasks batch.map starts for the rows i+1 .. i+batchSize: each is at its
\* generateEmbedding call
BatchTasks(all, i) == [k \in 1..Min(BatchSize, Len(all) - i) |-> "embed"]

BfStart(limit) ==
    /\ Len(post) + Len(bf) < limit
    /\ bf' = Append(bf, BfNew)
    /\ UNCHANGED <<listing, http, features, feedback, vectors, sim, post, created, wf>>

\* SELECT ... FROM feedback ORDER BY id settles: with no row the short 200
\* response; else the first batch is started; 500 when it throws
BfRead(b) ==
    /\ bf[b].pc = "read"
    /\ \/ IF Len(feedback) = 0
          THEN bf' = [bf EXCEPT ![b].pc = "done", ![b].status = 200,
                                ![b].success = TRUE,
                                ![b].keys = {"success", "message", "processed"}]
          ELSE bf' = [bf EXCEPT ![b].pc = "batch", ![b].all = feedback,
                                ![b].task = BatchTasks(feedback, 0),
                                ![b].started = BatchIds(feedback, 0),
                                ![b].batches = 1,
                                ![b].rerun = \A j \in 1..Len(feedback) :
                                                ToStr(feedback[j].id) \in DOMAIN vectors]
       \/ bf' = [bf EXCEPT ![b].pc = "done", ![b].status = 500,
                           ![b].keys = {"success", "error"}]
    /\ UNCHANGED <<listing, http, features, feedback, vectors, sim, post, created, wf>>

\* generateEmbedding of one row settling with no try around it: a throw
\* rejects Promise.all and the outer catch answers 500
BfEmbedUncaught(b, k) ==
    /\ bf[b].pc = "batch"
    /\ k \in DOMAIN bf[b].task
    /\ bf[b].task[k] = "embed"
    /\ \/ bf' = [bf EXCEPT ![b].task[k] = "insert"]
       \/ bf' = [bf EXCEPT ![b].pc = "done", ![b].status = 500,
                           ![b].keys = {"success", "error"},
                           ![b].task[k] = "failed", ![b].finished = @ + 1,
                           ![b].failedCalls = @ + 1, ![b].outage = TRUE]
    /\ UNCHANGED <<listing, http, features, feedback, vectors, sim, post, created, wf>>

\* generateEmbedding of one row of the batch settles; a throw is caught and
\* counted
BfEmbed(b, k) ==
    /\ bf[b].pc = "batch"
    /\ k \in DOMAIN bf[b].task
    /\ bf[b].task[k] = "embed"
    /\ \/ bf' = [bf EXCEPT ![b].task[k] = "insert"]
       \/ bf' = [bf EXCEPT ![b].task[k] = "failed", ![b].errors = @ + 1,
                           ![b].finished = @ + 1,
                           ![b].failedCalls = @ + 1, ![b].outage = TRUE]
    /\ UNCHANGED <<listing, http, features, feedback, vectors, sim, post, created, wf>>

\* VECTORIZE.insert of one row of the batch settles: processed++ or errors++
BfInsert(b, k) ==
    /\ bf[b].pc = "batch"
    /\ k \in DOMAIN bf[b].task
    /\ bf[b].task[k] = "insert"
    /\ LET row == bf[b].all[bf[b].i + k]
       IN  \E o \in InsertOutcomes(vectors, ToStr(row.id),
                       Vector(row.message, row.source, row.sentiment, "backfill")) :
              /\ vectors' = o.vectors
              /\ bf' = [bf EXCEPT
                    ![b].task[k] = IF o.ok THEN "succeeded" ELSE "failed",
                    ![b].processed = IF o.ok THEN @ + 1 ELSE @,
                    ![b].errors = IF o.ok THEN @ ELSE @ + 1,
                    ![b].finished = @ + 1,
                    ![b].failedCalls = IF o.ok THEN @ ELSE @ + 1,
                    ![b].outage = @ \/ (o.why = "outage")]
    /\ UNCHANGED <<listing, http, features, feedback, sim, post, created, wf>>

\* The loop going on without awaiting Promise.all of the batch
BfBarrierNoWait(b) ==
    /\ bf[b].pc = "batch"
    /\ IF bf[b].i + BatchSize < Len(bf[b].all)
       THEN bf' = [bf EXCEPT ![b].i = @ + BatchSize,
                             ![b].task = BatchTasks(bf[b].all, bf[b].i + BatchSize),
                             ![b].started = @ \o BatchIds(bf[b].all, bf[b].i + BatchSize),
                             ![b].batches = @ + 1]
       ELSE bf' = [bf EXCEPT ![b].pc = "done", ![b].status = 200,
                             ![b].success = TRUE,
                             ![b].keys = {"success", "message", "processed",
                                          "errors", "total"},
                             ![b].total = Len(bf[b].all)]
    /\ UNCHANGED <<listing, http, features, feedback, vectors, sim, post, created, wf>>

\* A loop that ends after its first batch
BfBarrierOneBatch(b) ==
    /\ bf[b].pc = "batch"
    /\ \A k \in DOMAIN bf[b].task : bf[b].task[k] \in {"succeeded", "failed"}
    /\ bf' = [bf EXCEPT ![b].pc = "done", ![b].status = 200,
                        ![b].success = TRUE,
                        ![b].keys = {"success", "message", "processed",
                                     "errors", "total"},
                        ![b].total = Len(bf[b].all)]
    /\ UNCHANGED <<listing, http, features, feedback, vectors, sim, post, created, wf>>

\* Promise.all of the batch resolves: the next batch is started, or the 200
\* response is returned
BfBarrier(b) ==
    /\ bf[b].pc = "batch"
    /\ \A k \in DOMAIN bf[b].task : bf[b].task[k] \in {"succeeded", "failed"}
    /\ IF bf[b].i + BatchSize < Len(bf[b].all)
       THEN bf' = [bf EXCEPT ![b].i = @ + BatchSize,
                             ![b].task = BatchTasks(bf[b].all, bf[b].i + BatchSize),
                             ![b].started = @ \o BatchIds(bf[b].all, bf[b].i + BatchSize),
                             ![b].batches = @ + 1]
       ELSE bf' = [bf EXCEPT ![b].pc = "done", ![b].status = 200,
                             ![b].success = TRUE,
                             ![b].keys = {"success", "message", "processed",
                                          "errors", "total"},
                             ![b].total = Len(bf[b].all)]
    /\ UNCHANGED <<listing, http, features, feedback, vectors, sim, post, created, wf>>

\* The steps of the runs that have arrived
BfSteps ==
    \/ \E b \in 1..Len(bf) : BfRead(b)
    \/ \E b \in 1..Len(bf) : \E k \in 1..BatchSize : BfEmbed(b, k)
    \/ \E b \in 1..Len(bf) : \E k \in 1..BatchSize : BfInsert(b, k)
    \/ \E b \in 1..Len(bf) : BfBarrier(b)

handleBackfillEmbeddings(limit) == BfStart(limit) \/ BfSteps

-----------------------------------------------------------------------------
(* The worker: submissions and backfill runs over a shared table and index *)

\* The table starts with rows stored earlier, any of them already indexed
Seeded(n, sentiments) ==
    /\ \E snt \in [1..n -> sentiments] :
          feedback = [i \in 1..n |-> Row(i, "Discord", "msg", snt[i])]
    /\ \E indexed \in SUBSET (1..n) :
          vectors = [s \in {ToStr(i) : i \in indexed} |->
                        Vector("msg", "Discord", feedback[DecVal(s)].sentiment, "earlier")]

Init ==
    /\ \E n \in 0..MaxSeed : Seeded(n, {NEUTRAL})
    /\ sim = SimIdle
    /\ post = <<>>
    /\ bf = <<>>
    /\ created = <<>>
    /\ http = <<>>
    /\ listing = GfIdle
    /\ features = NoCall
    /\ wf = <<>>

Next ==
    \/ handlePostFeedback({Body("Discord", "msg", "")},
                          {AiText(<<"N", "E", "G", "A", "T", "I", "V", "E", ".">>)},
                          MaxRequests)
    \/ handleBackfillEmbeddings(MaxRequests)

Spec == Init /\ [][Next]_vars

(* One backfill run, from the moment its request has arrived, over a table
   of up to MaxBfRecords rows, any of them already indexed *)

BfInit ==
    /\ \E n \in 0..MaxBfRecords : Seeded(n, {NEUTRAL})
    /\ sim = SimIdle
    /\ post = <<>>
    /\ bf = <<BfNew>>
    /\ created = <<>>
    /\ http = <<>>
    /\ listing = GfIdle
    /\ features = NoCall
    /\ wf = <<>>

BfNext == BfSteps

BfSpec == BfInit /\ [][BfNext]_vars

\* Every call that is awaited settles: a run that has a step to take takes one
BfLiveSpec == BfSpec /\ WF_vars(BfNext)

(* Submissions alone, with every request body and every answer of the
   sentiment model *)

PostInit ==
    /\ \E n \in 0..MaxSeed : Seeded(n, {NEUTRAL})
    /\ sim = SimIdle
    /\ post = <<>>
    /\ bf = <<>>
    /\ created = <<>>
    /\ http = <<>>
    /\ listing = GfIdle
    /\ features = NoCall
    /\ wf = <<>>

PostNext == handlePostFeedback(Bodies, SentimentOutcomes, MaxPosts)

PostSpec == PostInit /\ [][PostNext]_vars

-----------------------------------------------------------------------------
(* GET /api/feedback *)

\* SELECT source, COUNT(*) as count FROM feedback GROUP BY source: the count
\* of every value the column holds
CountBySource(rows) ==
    [v \in {rows[i].source : i \in 1..Len(rows)} |->
        Cardinality({i \in 1..Len(rows) : rows[i].source = v})]

\* SELECT sentiment, COUNT(*) as count FROM feedback GROUP BY sentiment
CountBySentiment(rows) ==
    [v \in {rows[i].sentiment : i \in 1..Len(rows)} |->
        Cardinality({i \in 1..Len(rows) : rows[i].sentiment = v})]

\* The catch of getStats: the statistics are empty and the response is sent
GfStatsFailed(query) ==
    listing' = [listing EXCEPT !.pc = "done", !.sourceStats = <<>>,
                               !.sentimentStats = <<>>, !.total = 0,
                               !.failed = query, !.status = 200,
                               !.keys = {"feedback", "stats"}]

\* SELECT * FROM feedback ORDER BY timestamp DESC; 500 when it throws
GfList ==
    /\ listing.pc = "idle"
    /\ \/ listing' = [listing EXCEPT
                          !.pc = "source",
                          !.results = {feedback[i].id : i \in 1..Len(feedback)}]
       \/ listing' = [listing EXCEPT !.pc = "done", !.status = 500,
                                     !.keys = {"error", "details"}, !.failed = "list"]
    /\ UNCHANGED <<http, features, feedback, vectors, sim, post, bf, created, wf>>

\* getStats: the counts by source
GfSource ==
    /\ listing.pc = "source"
    /\ \/ listing' = [listing EXCEPT !.pc = "sentiment",
                                     !.sourceStats = CountBySource(feedback)]
       \/ GfStatsFailed("source")
    /\ UNCHANGED <<http, features, feedback, vectors, sim, post, bf, created, wf>>

\* getStats: the counts by sentiment
GfSentiment ==
    /\ listing.pc = "sentiment"
    /\ \/ listing' = [listing EXCEPT !.pc = "total",
                                     !.sentimentStats = CountBySentiment(feedback)]
       \/ GfStatsFailed("sentiment")
    /\ UNCHANGED <<http, features, feedback, vectors, sim, post, bf, created, wf>>

\* getStats: SELECT COUNT(*) as total, then the 200 response
GfTotal ==
    /\ listing.pc = "total"
    /\ \/ listing' = [listing EXCEPT !.pc = "done", !.total = Len(feedback),
                                     !.status = 200, !.keys = {"feedback", "stats"}]
       \/ GfStatsFailed("total")
    /\ UNCHANGED <<http, features, feedback, vectors, sim, post, bf, created, wf>>

handleGetFeedback == GfList \/ GfSource \/ GfSentiment \/ GfTotal

(* One listing request with submissions arriving meanwhile *)

GfInit ==
    /\ \E n \in 0..MaxSeed : Seeded(n, {NEUTRAL})
    /\ sim = SimIdle
    /\ post = <<>>
    /\ bf = <<>>
    /\ created = <<>>
    /\ http = <<>>
    /\ listing = GfIdle
    /\ features = NoCall
    /\ wf = <<>>

GfNext ==
    \/ handleGetFeedback
    \/ handlePostFeedback({Body("Discord", "msg", "")},
                          {AiText(<<"N", "E", "G", "A", "T", "I", "V", "E", ".">>)},
                          MaxPosts)

GfSpec == GfInit /\ [][GfNext]_vars

-----------------------------------------------------------------------------
(* fetch: the router of the worker *)

\* requests routed when only the router is looked at
MaxFetches == 2

Methods == {"GET", "POST", "OPTIONS", "DELETE"}

Paths == {"/", "/api/feedback", "/api/analyze-features", "/api/similar-feedback",
          "/api/backfill-embeddings", "/api/stats"}

\* const corsHeaders
CorsHeaders == {"Access-Control-Allow-Origin", "Access-Control-Allow-Methods",
                "Access-Control-Allow-Headers"}

\* The chain of tests without the one for OPTIONS
RouteNoPreflight(method, path) ==
    IF path = "/api/feedback" /\ method = "POST" THEN "handlePostFeedback"
    ELSE IF path = "/api/feedback" /\ method = "GET" THEN "handleGetFeedback"
    ELSE IF path = "/api/analyze-features" /\ method = "GET" THEN "handleFeatureAnalysis"
    ELSE IF path = "/api/similar-feedback" /\ method = "GET" THEN "handleSimilarFeedback"
    ELSE IF path = "/api/backfill-embeddings" /\ method = "POST"
    THEN "handleBackfillEmbeddings"
    ELSE IF path = "/" THEN "handleDashboard"
    ELSE "Not Found"

\* The chain of tests of fetch, in its order: what answers the request
Route(method, path) ==
    IF method = "OPTIONS" THEN "preflight"
    ELSE IF path = "/api/feedback" /\ method = "POST" THEN "handlePostFeedback"
    ELSE IF path = "/api/feedback" /\ method = "GET" THEN "handleGetFeedback"
    ELSE IF path = "/api/analyze-features" /\ method = "GET" THEN "handleFeatureAnalysis"
    ELSE IF path = "/api/similar-feedback" /\ method = "GET" THEN "handleSimilarFeedback"
    ELSE IF path = "/api/backfill-embeddings" /\ method = "POST"
    THEN "handleBackfillEmbeddings"
    ELSE IF path = "/" THEN "handleDashboard"
    ELSE "Not Found"

\* The statuses of the Response objects each handler builds
HandlerStatuses(handler) ==
    CASE handler = "handlePostFeedback" -> {400, 201, 500}
      [] handler = "handleGetFeedback" -> {200, 500}
      [] handler = "handleFeatureAnalysis" -> {200, 500}
      [] handler = "handleSimilarFeedback" -> {400, 404, 200, 500}
      [] handler = "handleBackfillEmbeddings" -> {200, 500}
      [] handler = "handleDashboard" -> {200}

\* A request and its response: invoked tells whether a handler was called
Exchange(method, path, handler, pc, status, headers, body, invoked) ==
    [method |-> method, path |-> path, handler |-> handler, pc |-> pc,
     status |-> status, headers |-> headers, body |-> body, invoked |-> invoked]

\* fetch up to its return: new Response(null, {headers: corsHeaders}) for
\* OPTIONS, the call of a handler, or new Response("Not Found", {status: 404})
FetchRoute(limit) ==
    /\ Len(http) < limit
    /\ \E method \in Methods : \E path \in Paths :
          LET handler == Route(method, path)
          IN  http' = Append(http,
                  CASE handler = "preflight" ->
                         Exchange(method, path, handler, "done", 200, CorsHeaders,
                                  "", FALSE)
                    [] handler = "Not Found" ->
                         Exchange(method, path, handler, "done", 404, CorsHeaders,
                                  "Not Found", FALSE)
                    [] OTHER ->
                         Exchange(method, path, handler, "handling", 0, {}, "", TRUE))
    /\ UNCHANGED <<listing, feedback, vectors, sim, post, bf, created, wf, features>>

\* The handler returns one of its Response objects: each spreads corsHeaders
\* into its headers and adds Content-Type
FetchRespond(e) ==
    /\ http[e].pc = "handling"
    /\ \E status \in HandlerStatuses(http[e].handler) :
          http' = [http EXCEPT ![e].pc = "done", ![e].status = status,
                       ![e].headers = CorsHeaders \cup {"Content-Type"},
                       ![e].body = IF http[e].handler = "handleDashboard"
                                   THEN "html" ELSE "json"]
    /\ UNCHANGED <<listing, feedback, vectors, sim, post, bf, created, wf, features>>

fetch(limit) ==
    \/ FetchRoute(limit)
    \/ \E e \in 1..Len(http) : FetchRespond(e)

FetchInit ==
    /\ feedback = <<>>
    /\ vectors = <<>>
    /\ sim = SimIdle
    /\ post = <<>>
    /\ bf = <<>>
    /\ created = <<>>
    /\ wf = <<>>
    /\ http = <<>>
    /\ listing = GfIdle
    /\ features = NoCall

FetchNext == fetch(MaxFetches)

FetchSpec == FetchInit /\ [][FetchNext]_vars

-----------------------------------------------------------------------------
(* extractKeywords: the keyword fallback of extractFeatures *)

\* the longest list of messages that is tried
MaxMessages == 2

Letters == {"a", "b", "c", "d", "e", "f", "g", "h", "i", "j", "k", "l", "m",
            "n", "o", "p", "q", "r", "s", "t", "u", "v", "w", "x", "y", "z"}

\* The characters the regular expression class \w holds, after toLowerCase
WordChars == Letters \cup {"0", "1", "2", "3", "4", "5", "6", "7", "8", "9", "_"}

\* The maximal runs of \w characters of s; run is the run being read
RECURSIVE WordRuns(_, _)
WordRuns(s, run) ==
    IF s = <<>> THEN (IF run = <<>> THEN <<>> ELSE <<run>>)
    ELSE IF s[1] \in WordChars THEN WordRuns(Tail(s), Append(run, s[1]))
    ELSE (IF run = <<>> THEN <<>> ELSE <<run>>) \o WordRuns(Tail(s), <<>>)

\* s.match(/\b[a-z]{3,}\b/g) || []: between two word boundaries there is one
\* maximal run of \w, which matches when it is three or more letters a-z
MatchWords(s) ==
    SelectSeq(WordRuns(s, <<>>),
              LAMBDA w : Len(w) >= 3 /\ \A k \in 1..Len(w) : w[k] \in Letters)

commonWords ==
    {<<"t", "h", "e">>,
     <<"a">>,
     <<"a", "n">>,
     <<"a", "n", "d">>,
     <<"o", "r">>,
     <<"b", "u", "t">>,
     <<"i", "s">>,
     <<"a", "r", "e">>,
     <<"w", "a", "s">>,
     <<"w", "e", "r", "e">>,
     <<"b", "e">>,
     <<"b", "e", "e", "n">>,
     <<"b", "e", "i", "n", "g">>,
     <<"h", "a", "v", "e">>,
     <<"h", "a", "s">>,
     <<"h", "a", "d">>,
     <<"d", "o">>,
     <<"d", "o", "e", "s">>,
     <<"d", "i", "d">>,
     <<"w", "i", "l", "l">>,
     <<"w", "o", "u", "l", "d">>,
     <<"c", "o", "u", "l", "d">>,
     <<"s", "h", "o", "u", "l", "d">>,
     <<"t", "h", "i", "s">>,
     <<"t", "h", "a", "t">>,
     <<"t", "h", "e", "s", "e">>,
     <<"t", "h", "o", "s", "e">>,
     <<"i">>,
     <<"y", "o", "u">>,
     <<"h", "e">>,
     <<"s", "h", "e">>,
     <<"i", "t">>,
     <<"w", "e">>,
     <<"t", "h", "e", "y">>,
     <<"m", "y">>,
     <<"y", "o", "u", "r">>,
     <<"h", "i", "s">>,
     <<"h", "e", "r">>,
     <<"i", "t", "s">>,
     <<"o", "u", "r">>,
     <<"t", "h", "e", "i", "r">>,
     <<"m", "e">>,
     <<"h", "i", "m">>,
     <<"t", "h", "e", "m">>,
     <<"u", "s">>,
     <<"s", "o">>,
     <<"t", "h", "a", "n">>,
     <<"t", "o", "o">>,
     <<"v", "e", "r", "y">>,
     <<"j", "u", "s", "t">>,
     <<"c", "a", "n">>,
     <<"t", "o">>,
     <<"o", "f">>,
     <<"i", "n">>,
     <<"f", "o", "r">>,
     <<"o", "n">>,
     <<"w", "i", "t", "h">>,
     <<"a", "s">>,
     <<"b", "y">>,
     <<"a", "t">>,
     <<"f", "r", "o", "m">>}

\* The members every object inherits from Object.prototype whose names are
\* three or more letters a-z: reading keywords[name] gives a function
InheritedMembers == {<<"c", "o", "n", "s", "t", "r", "u", "c", "t", "o", "r">>}

\* mentions: a number, or the text of the inherited function followed by ones
Mentions(kind, n) == [kind |-> kind, n |-> n]

\* keywords[word] = (keywords[word] || 0) + 1 over an object whose own members
\* are kept in insertion order: a number grows by one, a text gets "1" appended
Tally(keywords, word) ==
    IF \E k \in 1..Len(keywords) : keywords[k].feature = word
    THEN [k \in 1..Len(keywords) |->
             IF keywords[k].feature = word
             THEN [keywords[k] EXCEPT !.mentions.n = @ + 1]
             ELSE keywords[k]]
    ELSE Append(keywords,
                [feature |-> word,
                 mentions |-> IF word \in InheritedMembers
                              THEN Mentions("string", 1)
                              ELSE Mentions("number", 1)])

\* words.forEach: the words of one message, the common ones left out
RECURSIVE TallyWords(_, _)
TallyWords(keywords, words) ==
    IF words = <<>> THEN keywords
    ELSE TallyWords(IF words[1] \in commonWords THEN keywords
                    ELSE Tally(keywords, words[1]),
                    Tail(words))

\* feedbackList.forEach: the keywords object after every message
RECURSIVE KeywordCounts(_, _)
KeywordCounts(keywords, feedbackList) ==
    IF feedbackList = <<>> THEN keywords
    ELSE KeywordCounts(TallyWords(keywords, MatchWords(ToLowerCase(feedbackList[1]))),
                       Tail(feedbackList))

\* The entry put into a list sorted by descending mentions, behind every entry
\* that does not have fewer: the sort is stable
RECURSIVE InsertByMentions(_, _)
InsertByMentions(sorted, entry) ==
    IF sorted = <<>> THEN <<entry>>
    ELSE IF sorted[1].mentions.n >= entry.mentions.n
         THEN <<sorted[1]>> \o InsertByMentions(Tail(sorted), entry)
         ELSE <<entry>> \o sorted

RECURSIVE SortByMentions(_, _)
SortByMentions(sorted, entries) ==
    IF entries = <<>> THEN sorted
    ELSE SortByMentions(InsertByMentions(sorted, entries[1]), Tail(entries))

\* Every order of the entries at the positions in rest
RECURSIVE Orderings(_, _)
Orderings(entries, rest) ==
    IF rest = {} THEN {<<>>}
    ELSE UNION {{<<entries[k]>> \o o : o \in Orderings(entries, rest \ {k})} :
                   k \in rest}

\* entries.sort((a, b) => b[1] - a[1]): with numbers, stable and descending;
\* with a text among the mentions the difference is NaN, the comparator is not
\* consistent and the order is the implementation's choice
SortOutcomes(entries) ==
    IF \A k \in 1..Len(entries) : entries[k].mentions.kind = "number"
    THEN {SortByMentions(<<>>, entries)}
    ELSE Orderings(entries, 1..Len(entries))

\* The results extractKeywords can return for a list: .slice(0, 3) of the
\* sorted entries, each mapped to {feature, mentions}
extractKeywords(feedbackList) ==
    {SubSeq(sorted, 1, IF Len(sorted) < 3 THEN Len(sorted) ELSE 3) :
        sorted \in SortOutcomes(KeywordCounts(<<>>, feedbackList))}

\* The messages that are tried:
\*   App is slow
\*   the APP
\*   slow sync, app2 ui
\*   constructor fails
\*   sync sync
\*   It's the best sync
Messages ==
    {<<"A", "p", "p", " ", "i", "s", " ", "s", "l", "o", "w">>,
     <<"t", "h", "e", " ", "A", "P", "P">>,
     <<"s", "l", "o", "w", " ", "s", "y", "n", "c", ",", " ", "a", "p", "p", "2", " ", "u", "i">>,
     <<"c", "o", "n", "s", "t", "r", "u", "c", "t", "o", "r", " ", "f", "a", "i", "l", "s">>,
     <<"s", "y", "n", "c", " ", "s", "y", "n", "c">>,
     <<"I", "t", "'", "s", " ", "t", "h", "e", " ", "b", "e", "s", "t", " ", "s", "y", "n", "c">>}

RECURSIVE ListsOf(_, _)
ListsOf(S, n) ==
    IF n = 0 THEN {<<>>}
    ELSE ListsOf(S, n - 1)
            \cup {Append(l, m) : l \in {x \in ListsOf(S, n - 1) : Len(x) = n - 1}, m \in S}

\* extractFeatures reaches its parse-error branch with a list of messages
KwCall(limit) ==
    /\ features.pc = "idle"
    /\ \E list \in ListsOf(Messages, limit) :
          features' = [features EXCEPT !.pc = "called", !.list = list]
    /\ UNCHANGED <<listing, http, feedback, vectors, sim, post, bf, created, wf>>

\* The call of extractKeywords with the list returns
KwReturn ==
    /\ features.pc = "called"
    /\ \E result \in extractKeywords(features.list) :
          features' = [features EXCEPT !.pc = "returned", !.results = <<result>>]
    /\ UNCHANGED <<listing, http, feedback, vectors, sim, post, bf, created, wf>>

\* extractKeywords is called once more with the same list
KwRepeat ==
    /\ features.pc = "returned"
    /\ \E result \in extractKeywords(features.list) :
          features' = [features EXCEPT !.pc = "done", !.results = Append(@, result)]
    /\ UNCHANGED <<listing, http, feedback, vectors, sim, post, bf, created, wf>>

KwInit ==
    /\ feedback = <<>>
    /\ vectors = <<>>
    /\ sim = SimIdle
    /\ post = <<>>
    /\ bf = <<>>
    /\ created = <<>>
    /\ wf = <<>>
    /\ http = <<>>
    /\ listing = GfIdle
    /\ features = NoCall

KwNext == KwCall(MaxMessages) \/ KwReturn \/ KwRepeat

KwSpec == KwInit /\ [][KwNext]_vars

-----------------------------------------------------------------------------
(* extractFeatures and GET /api/analyze-features *)

\* the most rows of the table in a feature analysis
MaxFaRecords == 2

\* The value of a member of an element of the parsed array
FStr(chars) == [k |-> "string", v |-> chars]
FNumber == [k |-> "number", v |-> <<>>]
FUndefined == [k |-> "undefined", v |-> <<>>]

\* An element of the parsed array: an object with its feature and mentions
\* members, or a value without members
FItem(t, feature, mentions) == [t |-> t, feature |-> feature, mentions |-> mentions]

FNull == FItem("null", FUndefined, Mentions("undefined", 0))

Praise(chars, n) == FItem("object", FStr(chars), Mentions("number", n))

\* The text of a model answer, as tokens: code fences, JSON values, other text
FTok(t, items) == [t |-> t, items |-> items]

\* responseText.replace(<the code fences>, "").trim()
FStripFences(text) == SelectSeq(text, LAMBDA tok : tok.t \notin {"fence json", "fence"})

\* response.response?.trim() || "[]", the fences removed
FeatureResponseText(out) ==
    IF out.kind = "missing" \/ out.text = <<>>
    THEN <<FTok("array", <<>>)>>
    ELSE FStripFences(out.text)

\* JSON.parse throws unless the text is one well-formed value
FParseThrows(text) == Len(text) # 1 \/ text[1].t = "garbage"

\* f.feature && typeof f.feature === "string"
HasFeature(f) == f.feature.k = "string" /\ f.feature.v # <<>>

\* .map(f => ({feature: f.feature, mentions: typeof f.mentions === "number" ?
\* f.mentions : 1}))
FeatureEntry(f) ==
    [feature |-> f.feature.v,
     mentions |-> IF f.mentions.kind = "number" THEN f.mentions ELSE Mentions("number", 1)]

\* Whether the inner try block throws: trim is no function, JSON.parse throws,
\* or the filter reads a member of null
FeaturesThrow(out) ==
    \/ out.kind = "notstring"
    \/ FParseThrows(FeatureResponseText(out))
    \/ LET parsed == FeatureResponseText(out)[1]
       IN  parsed.t = "array" /\ \E k \in 1..Len(parsed.items) : parsed.items[k].t = "null"

\* The results extractFeatures can return for a list and an outcome of the
\* model call
extractFeatures(feedbackList, out) ==
    IF feedbackList = <<>> THEN {<<>>}
    ELSE IF out.kind = "throws" THEN {<<>>}
    ELSE IF FeaturesThrow(out) THEN extractKeywords(feedbackList)
    ELSE LET parsed == FeatureResponseText(out)[1]
             items  == IF parsed.t = "array" THEN parsed.items ELSE <<>>
             kept   == SelectSeq(items, HasFeature)
             mapped == [k \in 1..Len(kept) |-> FeatureEntry(kept[k])]
         IN  {SubSeq(mapped, 1, IF Len(mapped) < 3 THEN Len(mapped) ELSE 3)}

SYNC == <<"s", "y", "n", "c">>
UI == <<"u", "i">>

\* The answers of the feature model that are tried
FeatureOutcomes ==
    {AiThrows, AiMissing, AiNotString, AiText(<<>>),
     AiText(<<FTok("garbage", <<>>)>>),
     AiText(<<FTok("object", <<>>)>>),
     AiText(<<FTok("null", <<>>)>>),
     AiText(<<FTok("array", <<Praise(SYNC, 2)>>)>>),
     AiText(<<FTok("fence json", <<>>), FTok("array", <<Praise(SYNC, 2)>>),
              FTok("fence", <<>>)>>),
     AiText(<<FTok("garbage", <<>>), FTok("array", <<Praise(SYNC, 2)>>)>>),
     AiText(<<FTok("array", <<Praise(SYNC, 4), Praise(UI, 3), Praise(SYNC, 2),
                              Praise(UI, 1)>>)>>),
     AiText(<<FTok("array", <<FItem("object", FStr(SYNC), Mentions("string", 2)),
                              FItem("object", FStr(<<>>), Mentions("number", 2)),
                              FItem("object", FNumber, Mentions("number", 2)),
                              FItem("number", FUndefined, Mentions("undefined", 0)),
                              FItem("object", FStr(UI), Mentions("undefined", 0))>>)>>),
     AiText(<<FTok("array", <<Praise(SYNC, 2), FNull>>)>>)}

\* The messages of the rows that are tried
FaMessages ==
    {<<"A", "p", "p", " ", "i", "s", " ", "s", "l", "o", "w">>,
     <<"c", "o", "n", "s", "t", "r", "u", "c", "t", "o", "r", " ", "f", "a", "i", "l", "s">>}

\* results.filter(f => f.sentiment === sentimentType).map(f => f.message)
MessagesOf(rows, sentimentType) ==
    LET sel == SelectSeq(rows, LAMBDA f : f.sentiment = sentimentType)
    IN  [k \in 1..Len(sel) |-> sel[k].message]

FaIdle == [pc |-> "idle", positive |-> <<>>, negative |-> <<>>,
           aiBest |-> AiMissing, aiWorst |-> AiMissing,
           bestFeatures |-> <<>>, worstFeatures |-> <<>>,
           status |-> 0, keys |-> {}, failed |-> ""]

\* SELECT message, sentiment FROM feedback: it throws, the table is empty, or
\* the messages are split by sentiment
FaSelect ==
    /\ features.pc = "idle"
    /\ \/ features' = [features EXCEPT !.pc = "done", !.status = 500,
                                       !.keys = {"error", "details"},
                                       !.failed = "select"]
       \/ IF Len(feedback) = 0
          THEN features' = [features EXCEPT
                               !.pc = "done", !.status = 200,
                               !.keys = {"bestFeatures", "worstFeatures", "message"}]
          ELSE features' = [features EXCEPT
                               !.pc = "best",
                               !.positive = MessagesOf(feedback, POSITIVE),
                               !.negative = MessagesOf(feedback, NEGATIVE)]
    /\ UNCHANGED <<listing, http, feedback, vectors, sim, post, bf, created, wf>>

\* bestFeatures = await extractFeatures(positiveFeedback, "positive", env)
FaBest ==
    /\ features.pc = "best"
    /\ \E out \in FeatureOutcomes : \E result \in extractFeatures(features.positive, out) :
          features' = [features EXCEPT !.pc = "worst", !.aiBest = out,
                                       !.bestFeatures = result]
    /\ UNCHANGED <<listing, http, feedback, vectors, sim, post, bf, created, wf>>

\* worstFeatures = await extractFeatures(negativeFeedback, "negative", env),
\* then the 200 response
FaWorst ==
    /\ features.pc = "worst"
    /\ \E out \in FeatureOutcomes : \E result \in extractFeatures(features.negative, out) :
          features' = [features EXCEPT
                          !.pc = "done", !.aiWorst = out, !.worstFeatures = result,
                          !.status = 200,
                          !.keys = {"bestFeatures", "worstFeatures", "analyzedCount",
                                    "positiveCount", "negativeCount"}]
    /\ UNCHANGED <<listing, http, feedback, vectors, sim, post, bf, created, wf>>

handleFeatureAnalysis == FaSelect \/ FaBest \/ FaWorst

FaInit ==
    /\ \E n \in 0..MaxFaRecords :
          \E msg \in [1..n -> FaMessages] : \E snt \in [1..n -> Sentiments] :
             feedback = [i \in 1..n |-> Row(i, "Discord", msg[i], snt[i])]
    /\ vectors = <<>>
    /\ sim = SimIdle
    /\ post = <<>>
    /\ bf = <<>>
    /\ created = <<>>
    /\ wf = <<>>
    /\ http = <<>>
    /\ listing = GfIdle
    /\ features = FaIdle

FaNext == handleFeatureAnalysis

FaSpec == FaInit /\ [][FaNext]_vars

-----------------------------------------------------------------------------
(* The notification workflow *)

\* retries of a failed step before the run fails
MaxRetries == 2

Assessment(level, confidence, reason, category) ==
    [level |-> level, confidence |-> confidence, reason |-> reason, category |-> category]

\* The catch branch of analyzeUrgency
UrgencyFallback(sentiment) ==
    Assessment(IF sentiment = NEGATIVE THEN Str("HIGH") ELSE Str("NORMAL"),
               Num("50"), Str("Fallback classification based on sentiment"),
               Str("General"))

\* response.response?.trim() || '{}'
UrgencyResponseText(out) ==
    IF out.kind = "missing" \/ (out.kind = "text" /\ out.text = <<>>)
    THEN <<Obj(Undefined, Undefined, Undefined, Undefined)>>
    ELSE out.text

\* Whether the try block of analyzeUrgency throws: the call rejects, trim is
\* no function, JSON.parse throws, or a member of null is read
UrgencyThrows(out) ==
    \/ out.kind \in {"throws", "notstring"}
    \/ ~ParseOk(StripFences(UrgencyResponseText(out)))
    \/ StripFences(UrgencyResponseText(out))[1].t = "null"

analyzeUrgency(out, sentiment) ==
    IF UrgencyThrows(out)
    THEN UrgencyFallback(sentiment)
    ELSE LET analysis == StripFences(UrgencyResponseText(out))[1]
         IN  Assessment(OrElse(analysis.level, Str("NORMAL")),
                        OrElse(analysis.confidence, Num("50")),
                        OrElse(analysis.reason, Str("No specific reason provided")),
                        OrElse(analysis.category, Str("General")))

\* The test on the level with HIGH left out
IsUrgentOnlyCritical(level) == level = Str("CRITICAL")

\* urgency.level === 'CRITICAL' || urgency.level === 'HIGH'
IsUrgent(level) == level = Str("CRITICAL") \/ level = Str("HIGH")

WfStart(sentiment, webhook) ==
    [pc |-> "start", sentiment |-> sentiment, webhook |-> webhook,
     ai |-> AiThrows, urgency |-> UrgencyFallback(NEUTRAL),
     aiCalls |-> 0, attempts |-> 0, posts |-> 0, accepted |-> 0,
     sent |-> "none", notified |-> FALSE]

\* step.do('analyze-urgency'): the assessment is the step's checkpointed output
WfAnalyze ==
    /\ wf.pc = "start"
    /\ \E out \in UrgencyOutcomes :
          wf' = [wf EXCEPT !.pc = "analyzed", !.ai = out, !.aiCalls = @ + 1,
                           !.urgency = analyzeUrgency(out, wf.sentiment)]
    /\ UNCHANGED <<listing, http, features, feedback, vectors, sim, post, bf, created>>

\* The test that guards the second step
WfBranch ==
    /\ wf.pc = "analyzed"
    /\ wf' = [wf EXCEPT !.pc = IF IsUrgent(wf.urgency.level) THEN "send" ELSE "skipped"]
    /\ UNCHANGED <<listing, http, features, feedback, vectors, sim, post, bf, created>>

\* A send step that does not test response.ok: a non-2xx answer passes as sent
WfSendIgnoresStatus ==
    /\ wf.pc = "send"
    /\ IF ~wf.webhook
       THEN wf' = [wf EXCEPT !.pc = "sent", !.sent = "No webhook configured"]
       ELSE \E answer \in {"2xx", "non2xx", "transport error"} :
               IF answer = "2xx"
               THEN wf' = [wf EXCEPT !.pc = "sent", !.posts = @ + 1,
                                     !.accepted = @ + 1, !.sent = "success"]
               ELSE IF answer = "non2xx"
               THEN wf' = [wf EXCEPT !.pc = "sent", !.posts = @ + 1, !.sent = "success"]
               ELSE wf' = [wf EXCEPT !.posts = @ + 1, !.attempts = @ + 1,
                                     !.pc = IF wf.attempts < MaxRetries
                                            THEN "send" ELSE "failed"]
    /\ UNCHANGED <<listing, http, features, feedback, vectors, sim, post, bf, created>>

\* A send step that throws when no webhook URL is configured
WfSendThrowsUnconfigured ==
    /\ wf.pc = "send"
    /\ IF ~wf.webhook
       THEN wf' = [wf EXCEPT !.attempts = @ + 1,
                             !.pc = IF wf.attempts < MaxRetries THEN "send" ELSE "failed"]
       ELSE \E answer \in {"2xx", "non2xx", "transport error"} :
               IF answer = "2xx"
               THEN wf' = [wf EXCEPT !.pc = "sent", !.posts = @ + 1,
                                     !.accepted = @ + 1, !.sent = "success"]
               ELSE wf' = [wf EXCEPT !.posts = @ + 1, !.attempts = @ + 1,
                                     !.pc = IF wf.attempts < MaxRetries
                                            THEN "send" ELSE "failed"]
    /\ UNCHANGED <<listing, http, features, feedback, vectors, sim, post, bf, created>>

\* A failed attempt of the send step after which the run starts over from its
\* first step
WfSendRestart ==
    /\ wf.pc = "send"
    /\ IF ~wf.webhook
       THEN wf' = [wf EXCEPT !.pc = "sent", !.sent = "No webhook configured"]
       ELSE \E answer \in {"2xx", "non2xx", "transport error"} :
               IF answer = "2xx"
               THEN wf' = [wf EXCEPT !.pc = "sent", !.posts = @ + 1,
                                     !.accepted = @ + 1, !.sent = "success"]
               ELSE wf' = [wf EXCEPT !.posts = @ + 1, !.attempts = @ + 1,
                                     !.pc = IF wf.attempts < MaxRetries
                                            THEN "start" ELSE "failed"]
    /\ UNCHANGED <<listing, http, features, feedback, vectors, sim, post, bf, created>>

\* One attempt of step.do('send-slack-notification'): without a webhook URL it
\* returns; else it POSTs, and a non-2xx answer or a transport error throws,
\* which the engine retries until its retries are used up
WfSend ==
    /\ wf.pc = "send"
    /\ IF ~wf.webhook
       THEN wf' = [wf EXCEPT !.pc = "sent", !.sent = "No webhook configured"]
       ELSE \E answer \in {"2xx", "non2xx", "transport error"} :
               IF answer = "2xx"
               THEN wf' = [wf EXCEPT !.pc = "sent", !.posts = @ + 1,
                                     !.accepted = @ + 1, !.sent = "success"]
               ELSE wf' = [wf EXCEPT !.posts = @ + 1, !.attempts = @ + 1,
                                     !.pc = IF wf.attempts < MaxRetries
                                            THEN "send" ELSE "failed"]
    /\ UNCHANGED <<listing, http, features, feedback, vectors, sim, post, bf, created>>

\* A run that returns its result as soon as the urgency is known
WfReturnEarly ==
    /\ wf.pc \in {"analyzed", "sent", "skipped"}
    /\ wf' = [wf EXCEPT !.pc = "done", !.notified = IsUrgent(wf.urgency.level)]
    /\ UNCHANGED <<listing, http, features, feedback, vectors, sim, post, bf, created>>

\* return {success, urgency, notified}
WfReturn ==
    /\ wf.pc \in {"sent", "skipped"}
    /\ wf' = [wf EXCEPT !.pc = "done", !.notified = IsUrgent(wf.urgency.level)]
    /\ UNCHANGED <<listing, http, features, feedback, vectors, sim, post, bf, created>>

run == WfAnalyze \/ WfBranch \/ WfSend \/ WfReturn

WfInit ==
    /\ \E sentiment \in Sentiments : \E webhook \in BOOLEAN :
          wf = WfStart(sentiment, webhook)
    /\ feedback = <<>>
    /\ vectors = <<>>
    /\ sim = SimIdle
    /\ post = <<>>
    /\ bf = <<>>
    /\ created = <<>>
    /\ http = <<>>
    /\ listing = GfIdle
    /\ features = NoCall

WfNext == run

WfSpec == WfInit /\ [][WfNext]_vars

\* The engine goes on with a run as long as a step of it can be taken
WfLiveSpec == WfSpec /\ WF_vars(WfNext)

-----------------------------------------------------------------------------
(* Properties of GET /api/similar-feedback *)

SimAnswered200 == sim.pc = "done" /\ sim.status = 200

\* The match a returned record or score entry comes from
MatchOf(idText) ==
    {k \in 1..Len(sim.matches) : sim.matches[k].id = idText}

\* C1: in every 200 response, for every value of the id parameter that the
\* lookup resolves to a row, the row returned as original is not among the
\* records of similar and its id is not among the ids of scores.
C1_SelfExcluded ==
    SimAnswered200 =>
        LET original == sim.original[1]
        IN  /\ \A k \in 1..Len(sim.similar) : sim.similar[k].id # original.id
            /\ \A k \in 1..Len(sim.scores) : sim.scores[k].id # ToStr(original.id)

\* C2: in every 200 response, every entry of scores and every record of
\* similar comes from a match of the index query whose score is at least 0.6.
C2_Threshold ==
    SimAnswered200 =>
        /\ \A k \in 1..Len(sim.scores) :
              /\ sim.scores[k].score >= Threshold
              /\ \E j \in MatchOf(sim.scores[k].id) :
                    sim.matches[j].score = sim.scores[k].score
        /\ \A k \in 1..Len(sim.similar) :
              /\ MatchOf(ToStr(sim.similar[k].id)) # {}
              /\ \A j \in MatchOf(ToStr(sim.similar[k].id)) :
                    sim.matches[j].score >= Threshold

\* C2 witness: a 200 response with results, for which the index also returned
\* a match of another row below the threshold.
C2_Witness ==
    /\ SimAnswered200
    /\ Len(sim.scores) > 0
    /\ \E j \in 1..Len(sim.matches) :
          /\ sim.matches[j].score < Threshold
          /\ sim.matches[j].id # sim.id

\* C3: every 200 response has at most 5 records in similar and carries a
\* scores list of the same length, also when no match remains.
C3_ResultBound ==
    SimAnswered200 =>
        /\ Len(sim.similar) <= MaxSimilar
        /\ "scores" \in sim.keys
        /\ Len(sim.scores) = Len(sim.similar)

\* The matches of the index query that are not the requested id and reach
\* the threshold
Surviving ==
    SelectSeq(sim.matches, LAMBDA m : m.id # sim.id /\ m.score >= 60)

\* C21: when the lookup found the record, embedded its message and queried
\* the index, and no match survives self-exclusion and the threshold, the
\* answer is 200 with original, similar = [] and scores = [].
C21_NoMatchesNotAnError ==
    sim.pc = "done" /\ sim.failed = "" /\ sim.queryCalls = 1 /\ Surviving = <<>> =>
        /\ sim.status = 200
        /\ sim.embedCalls = 1
        /\ {"original", "similar", "scores"} \subseteq sim.keys
        /\ sim.similar = <<>>
        /\ sim.scores = <<>>

\* C27: in every 200 response with a result, similar and scores are parallel:
\* at every position the id of the record, as a string, is the id of the
\* score entry, and the two lists hold the same set of ids.
C27_ParallelLists ==
    SimAnswered200 /\ Len(sim.similar) > 0 =>
        /\ Len(sim.similar) = Len(sim.scores)
        /\ \A i \in 1..Len(sim.similar) :
              i <= Len(sim.scores) /\ ToStr(sim.similar[i].id) = sim.scores[i].id
        /\ {ToStr(sim.similar[i].id) : i \in 1..Len(sim.similar)}
              = {sim.scores[i].id : i \in 1..Len(sim.scores)}

\* The index's ranked result without the match of the original record and
\* without the matches below the threshold
RankedOthers ==
    SelectSeq(sim.matches,
              LAMBDA m : m.id # ToStr(sim.original[1].id) /\ m.score >= 60)

\* C28: in every 200 response the scores list is in descending score order and
\* is exactly the first (at most 5) elements of the index's ranked result after
\* removing the self-match and the matches below 0.6, in the index's order.
C28_RankOrderPreserved ==
    SimAnswered200 =>
        /\ \A i, j \in 1..Len(sim.scores) :
              i < j => sim.scores[i].score >= sim.scores[j].score
        /\ sim.scores = SubSeq(RankedOthers, 1,
                               IF Len(RankedOthers) < 5 THEN Len(RankedOthers) ELSE 5)

\* The whole index in rank order without the original's own entry and without
\* the entries below the threshold
WholeIndexOthers ==
    SelectSeq(sim.matches \o sim.beyond,
              LAMBDA m : m.id # ToStr(sim.original[1].id) /\ m.score >= 60)

\* C33: the scores of every 200 response, computed from a query for 6 matches,
\* are the (at most) 5 highest-scoring entries among all entries of the index
\* other than the original's own that score at least 0.6.
C33_OneExtraIsEnough ==
    SimAnswered200 =>
        sim.scores = SubSeq(WholeIndexOthers, 1,
                            IF Len(WholeIndexOthers) < 5 THEN Len(WholeIndexOthers) ELSE 5)

\* C35: no step of a GET /api/similar-feedback request, whatever its outcome,
\* changes the feedback table or the vector index or creates a workflow; the
\* vector computed for the original's message is not written to the index.
C35_LookupReadOnly ==
    [][sim' # sim => /\ feedback' = feedback
                     /\ vectors' = vectors
                     /\ created' = created]_vars

\* C35 witness: a lookup answered 200 after computing the vector of an
\* original that has no entry in the index, and still has none.
C35_Witness ==
    /\ SimAnswered200
    /\ sim.embedCalls = 1
    /\ sim.queryCalls = 1
    /\ ToStr(sim.original[1].id) \notin DOMAIN vectors

\* A row of the table has the id the parameter spells
IdStored ==
    /\ IsIntText(sim.id)
    /\ \E j \in 1..Len(feedback) : feedback[j].id = DecVal(sim.id)

\* C18: a lookup is answered 400 exactly when the id parameter is missing or
\* empty; 404 exactly when it is given, the store read succeeds and no row
\* has that id, and then no embedding call and no index query was made; 500
\* with error and details exactly when the store read, the embedding or the
\* index query threw; and none of these answers carries original, similar or
\* scores.
C18_ErrorMapping ==
    sim.pc = "done" =>
        /\ sim.status \in {200, 400, 404, 500}
        /\ sim.status = 400 <=> (~sim.hasId \/ sim.id = <<>>)
        /\ sim.status = 404 <=>
              (sim.hasId /\ sim.id # <<>> /\ sim.failed = "" /\ ~IdStored)
        /\ sim.status = 404 => sim.embedCalls = 0 /\ sim.queryCalls = 0
        /\ sim.status = 500 <=>
              sim.failed \in {"lookup", "embedding", "query", "hydrate"}
        /\ sim.status = 500 => sim.keys = {"error", "details"}
        /\ sim.status # 200 =>
              /\ sim.keys \cap {"original", "similar", "scores"} = {}
              /\ sim.similar = <<>>
              /\ sim.scores = <<>>

\* C18 witness: a 500 answer after the index query had returned matches that
\* pass the filter, the read of their rows having thrown.
C18_Witness ==
    /\ sim.pc = "done"
    /\ sim.status = 500
    /\ sim.failed = "hydrate"
    /\ Len(SelectSeq(sim.matches, LAMBDA m : m.score >= Threshold /\ m.id # sim.id)) > 0

-----------------------------------------------------------------------------
(* Properties of the notification workflow *)

WfEnded == wf.pc \in {"done", "failed"}

\* The level is CRITICAL or HIGH
CriticalOrHigh == wf.urgency.level \in {Str("CRITICAL"), Str("HIGH")}

\* C8 as stated: in every run, an alert is POSTed to the webhook if and only
\* if the level of the analyze-urgency step is CRITICAL or HIGH.
C8_DispatchIffUrgent ==
    WfEnded => (wf.posts > 0 <=> CriticalOrHigh)

\* C8 amended: an alert is POSTed if and only if the level is CRITICAL or HIGH
\* and a webhook URL is configured; no POST is ever made otherwise, and a run
\* with such a level and a webhook has POSTed by the time it ends.
C8_DispatchIffUrgentAndWebhook ==
    /\ wf.posts > 0 => CriticalOrHigh /\ wf.webhook
    /\ WfEnded => (wf.posts > 0 <=> (CriticalOrHigh /\ wf.webhook))

\* C8 witness: a completed run at level HIGH, with a webhook, that POSTed.
C8_Witness ==
    /\ wf.pc = "done"
    /\ wf.urgency.level = Str("HIGH")
    /\ wf.webhook
    /\ wf.posts > 0

\* The model output cannot be brought into the {level, confidence, reason,
\* category} shape: the call or the parse throws, or the value parsed is no
\* object, or it has no level
NotOfUrgencyShape(out) ==
    \/ UrgencyThrows(out)
    \/ LET analysis == StripFences(UrgencyResponseText(out))[1]
       IN  analysis.t # "object" \/ analysis.level = Undefined

\* C9: whenever the urgency model call throws or its output cannot be parsed
\* into the expected shape, the assessment has level HIGH for a negative
\* sentiment and NORMAL otherwise, with confidence 0.5.
C9_UrgencyFallback ==
    wf.pc # "start" /\ NotOfUrgencyShape(wf.ai) =>
        /\ wf.urgency.level =
              IF wf.sentiment = NEGATIVE THEN Str("HIGH") ELSE Str("NORMAL")
        /\ wf.urgency.confidence = Num("50")

\* C23: for every outcome of the urgency model call, the assessment that
\* analyzeUrgency returns has a level that is CRITICAL, HIGH or NORMAL.
C23_UrgencyLevelClosure ==
    wf.pc # "start" =>
        wf.urgency.level \in {Str("CRITICAL"), Str("HIGH"), Str("NORMAL")}

\* C25: in a run with a webhook URL, a send step that is reached at level
\* CRITICAL or HIGH leads to the run completing with an alert POST accepted,
\* unless every attempt the engine makes is answered with a failure; and no
\* run with a webhook URL completes with notified = true and no POST accepted.
C25_AtLeastOnceDelivery ==
    /\ [](wf.webhook /\ wf.pc = "done" /\ wf.notified => wf.accepted >= 1)
    /\ (wf.webhook /\ wf.pc = "send" /\ CriticalOrHigh)
          ~> ((wf.pc = "done" /\ wf.accepted >= 1) \/ wf.pc = "failed")

\* C25 witness: a completed run whose alert was POSTed more than once before
\* one POST was accepted.
C25_Witness ==
    /\ wf.pc = "done"
    /\ wf.webhook
    /\ wf.notified
    /\ wf.posts >= 2
    /\ wf.accepted >= 1

\* One step of a run follows the order START, URGENCY_ANALYZED, NOTIFY_SENT or
\* SKIPPED, DONE: the analyze-urgency step completes with an assessment after
\* one model call, the send step is attempted only after it, an attempt of the
\* send step ends in one of sendEnds, and the result is produced only from a
\* completed send step or a skipped one
WfStepInOrder(sendEnds) ==
    wf' # wf =>
        /\ wf.pc = "start" =>
              /\ wf'.pc = "analyzed"
              /\ wf'.aiCalls = 1
              /\ DOMAIN wf'.urgency = {"level", "confidence", "reason", "category"}
        /\ wf.pc = "analyzed" => wf'.pc \in {"send", "skipped"}
        /\ wf.pc = "send" => wf'.pc \in sendEnds
        /\ wf.pc \in {"sent", "skipped"} => wf'.pc = "done"
        /\ wf.pc \notin {"done", "failed"}

\* No attempt of the send step without a completed analysis, and no result
\* without a completed or skipped send step
WfStepsGuarded ==
    /\ wf.pc = "send" \/ wf.posts > 0 \/ wf.sent # "none" => wf.aiCalls = 1
    /\ wf.pc = "done" => wf.aiCalls = 1 /\ (wf.sent # "none" \/ ~CriticalOrHigh)

C32_NotifiedMeansDelivered ==
    wf.pc = "done" =>
        /\ wf.notified => wf.accepted >= 1
        /\ ~wf.notified <=> wf.accepted = 0

\* C16: once the analyze-urgency step has completed, no later step of the run,
\* and in particular no failed and retried attempt of the send step, calls
\* the urgency model again or changes the assessment: the model is called at
\* most once per run.
C16_StepLocalRetry ==
    [][wf.pc # "start" => /\ wf'.aiCalls = wf.aiCalls
                          /\ wf'.urgency = wf.urgency
                          /\ wf'.aiCalls <= 1]_vars

\* C16 witness: the send step failed, was retried and then succeeded, with the
\* model called once.
C16_Witness ==
    /\ wf.pc = "done"
    /\ wf.attempts >= 1
    /\ wf.accepted = 1
    /\ wf.aiCalls = 1

\* C17: in a run without a webhook URL whose level is CRITICAL or HIGH, the
\* send step completes on its first attempt with {success: false, reason:
\* 'No webhook configured'}: no POST is made, nothing is thrown or retried,
\* the run never fails, and after the step the run can return.
C17_MissingWebhookSoft ==
    ~wf.webhook /\ CriticalOrHigh /\ wf.pc \notin {"start", "analyzed"} =>
        /\ wf.posts = 0
        /\ wf.attempts = 0
        /\ wf.pc \in {"send", "sent", "done"}
        /\ wf.pc \in {"sent", "done"} => wf.sent = "No webhook configured"
        /\ wf.pc = "sent" => ENABLED WfReturn

\* C17 witness: a completed run at level CRITICAL without a webhook URL.
C17_Witness ==
    /\ wf.pc = "done"
    /\ ~wf.webhook
    /\ wf.urgency.level = Str("CRITICAL")
    /\ wf.sent = "No webhook configured"

-----------------------------------------------------------------------------
(* Properties of POST /api/backfill-embeddings *)

BfAnswered200(b) == bf[b].pc = "done" /\ bf[b].status = 200

\* C4: every backfill run answered 200 reports processed, errors and total
\* with processed + errors = total, and total is the number of rows the table
\* held when the run read it.
C4_BackfillAccounting ==
    \A b \in 1..Len(bf) :
        BfAnswered200(b) =>
            /\ {"processed", "errors", "total"} \subseteq bf[b].keys
            /\ bf[b].processed + bf[b].errors = bf[b].total
            /\ bf[b].total = Len(bf[b].all)

\* C5: a backfill run over a table whose rows all have a vector already, in
\* which no call fails for reasons of the service, replaces every vector and
\* reports processed = total and errors = 0.
C5_IdempotentWrite ==
    \A b \in 1..Len(bf) :
        BfAnswered200(b) /\ bf[b].rerun /\ ~bf[b].outage /\ Len(bf[b].all) > 0 =>
            /\ bf[b].processed = bf[b].total
            /\ bf[b].errors = 0
            /\ \A j \in 1..Len(bf[b].all) :
                  vectors[ToStr(bf[b].all[j].id)].metadata.timestamp = "backfill"

-----------------------------------------------------------------------------
(* Properties of POST /api/feedback *)

\* The INSERT of request r succeeded
Inserted(r) == post[r].id > 0

\* C6: a submission whose INSERT succeeded is answered 201 with id and
\* sentiment, whatever became of the embedding, the vector write and the
\* workflow creation, and its row stays in the table.
C6_SubmissionIsolation ==
    \A r \in 1..Len(post) :
        Inserted(r) =>
            /\ post[r].pc = "done" =>
                  post[r].status = 201 /\ post[r].keys = {"success", "id", "sentiment"}
            /\ post[r].id <= Len(feedback)
            /\ feedback[post[r].id] = Row(post[r].id, post[r].body.source,
                                          post[r].body.message, post[r].sentiment)

\* C6 witness: a 201 answer for a stored row after the vector write and the
\* workflow creation both failed.
C6_Witness ==
    \E r \in 1..Len(post) :
        /\ Inserted(r)
        /\ post[r].status = 201
        /\ post[r].failed = {"vector", "workflow"}

\* C7: the 201 response does not wait for the embedding and the vector write
\* of the new row: while either is pending, the step that returns the
\* response can be taken.
C7_NonBlockingEmbedding ==
    \A r \in 1..Len(post) :
        post[r].pc \in {"embed", "vector"} => ENABLED PostWorkflow(r)

\* The row of request r is in the table under the id the request holds
RowStored(r) ==
    /\ post[r].id >= 1
    /\ post[r].id <= Len(feedback)
    /\ feedback[post[r].id].id = post[r].id

\* C36: a submission attempts its vector write and its workflow creation only
\* after its row is inserted and the id known; a submission answered 500 has
\* no id, no vector and no workflow; every workflow created and every vector
\* a submission wrote belongs to one submission with a stored row, and a
\* submission that is past its vector write or answered does not go back: at
\* most one vector write and one workflow instance for each 201 response.
C36_SideEffectsFollowStore ==
    /\ [](\A r \in 1..Len(post) :
            /\ post[r].pc \in {"embed", "vector", "workflow"} \/ post[r].status = 201
                  => RowStored(r)
            /\ post[r].status \in {400, 500} =>
                  /\ post[r].id = 0
                  /\ post[r].failed = {}
                  /\ \A c \in 1..Len(created) : created[c].feedbackId # post[r].id)
    /\ [](\A c \in 1..Len(created) :
            /\ \E r \in 1..Len(post) :
                  /\ post[r].id = created[c].feedbackId
                  /\ post[r].status = 201
                  /\ RowStored(r)
            /\ \A d \in 1..Len(created) :
                  d # c => created[d].feedbackId # created[c].feedbackId)
    /\ [](\A s \in DOMAIN vectors :
            vectors[s].metadata.timestamp = "post" =>
                \E r \in 1..Len(post) :
                    /\ s = ToStr(post[r].id)
                    /\ RowStored(r)
                    /\ post[r].pc \in {"workflow", "done"})
    /\ [][\A r \in 1..Len(post) :
            /\ post[r].pc \in {"workflow", "done"} => post'[r].pc \in {"workflow", "done"}
            /\ post[r].pc = "done" => post'[r] = post[r]
            /\ post[r].pc # "vector" =>
                  \A s \in DOMAIN vectors' \ DOMAIN vectors :
                      vectors'[s].metadata.timestamp = "post" => s # ToStr(post[r].id)
            /\ post[r].pc # "workflow" =>
                  \A c \in (Len(created) + 1)..Len(created') :
                      created'[c].feedbackId # post[r].id]_vars

\* C36 witness: a 201 response whose row, vector and workflow instance all
\* exist, the vector written by the submission itself.
C36_Witness ==
    \E r \in 1..Len(post) :
        /\ post[r].status = 201
        /\ post[r].failed = {}
        /\ ToStr(post[r].id) \in DOMAIN vectors
        /\ vectors[ToStr(post[r].id)].metadata.timestamp = "post"
        /\ \E c \in 1..Len(created) : created[c].feedbackId = post[r].id

\* C10: every stored row has a sentiment that is one of positive, negative,
\* neutral.
C10_SentimentClosure ==
    \A i \in 1..Len(feedback) : feedback[i].sentiment \in Sentiments

\* C10 witness: a row stored by a submission whose body carried a sentiment of
\* its own and for which the model's answer was not one of the three words.
C10_Witness ==
    \E r \in 1..Len(post) :
        /\ Inserted(r)
        /\ ~post[r].clean
        /\ post[r].body.extra # ""
        /\ feedback[post[r].id].sentiment = NEUTRAL

\* The labels a model answer names
LabelsNamed(out) ==
    IF out.kind # "text" THEN {}
    ELSE {l \in Sentiments : Includes(Trim(ToLowerCase(out.text)), l)}

\* A malformed or ambiguous model output: an upstream error, a missing or
\* empty response, a text naming no label, a text naming more than one
MalformedOrAmbiguous(out) == Cardinality(LabelsNamed(out)) # 1

\* C11: whenever the sentiment model's output is malformed or ambiguous (an
\* error, a missing or empty response, no label named, more than one label
\* named), analyzeSentiment returns neutral.
C11_NeutralDefault ==
    \A r \in 1..Len(post) :
        post[r].pc \notin {"sentiment"} /\ post[r].status \notin {400, 500}
            /\ MalformedOrAmbiguous(post[r].ai)
        => post[r].sentiment = NEUTRAL

-----------------------------------------------------------------------------
(* Properties of one backfill run *)

\* The ids of the rows the run read, in the order read
IdsRead(b) == [j \in 1..Len(bf[b].all) |-> bf[b].all[j].id]

\* The run read a table with rows and started its loop
BfLooping(b) == Len(bf[b].all) > 0

\* C12: in a run that read rows, no failure of an embedding or an index write
\* stops the run: a task is started for each row read at most once and in the
\* order read; when the run ends every row read has had its task started and
\* settled exactly once, and the answer is 200 with success true, whatever
\* the number of errors.
C12_FailureIsolation ==
    \A b \in 1..Len(bf) :
        BfLooping(b) =>
            /\ bf[b].started = SubSeq(IdsRead(b), 1, Len(bf[b].started))
            /\ bf[b].finished <= Len(bf[b].started)
            /\ bf[b].pc = "done" =>
                  /\ bf[b].started = IdsRead(b)
                  /\ bf[b].finished = Len(bf[b].all)
                  /\ bf[b].status = 200
                  /\ bf[b].success

\* C12 witness: a run over two batches that ended with failures in it, among
\* them the first row's, and with rows written after those failures.
C12_Witness ==
    \E b \in 1..Len(bf) :
        /\ bf[b].pc = "done"
        /\ bf[b].batches = 2
        /\ bf[b].errors >= 2
        /\ ToStr(bf[b].all[1].id) \notin DOMAIN vectors
        /\ ToStr(bf[b].all[Len(bf[b].all)].id) \in DOMAIN vectors
        /\ vectors[ToStr(bf[b].all[Len(bf[b].all)].id)].metadata.timestamp = "backfill"

\* C37: when every embedding call and every index write settles, a backfill
\* run over any table produces its response, and a run that read total rows
\* has by then started exactly ceil(total / 5) batches, whichever calls failed.
C37_BackfillTerminates ==
    /\ <>(\A b \in 1..Len(bf) : bf[b].pc = "done")
    /\ [](\A b \in 1..Len(bf) :
            /\ bf[b].batches <= (Len(bf[b].all) + 4) \div 5
            /\ bf[b].pc = "done" =>
                  /\ bf[b].batches = (Len(bf[b].all) + 4) \div 5
                  /\ bf[b].status = 200 => Len(bf[b].all) = Len(feedback))

\* C37 witness: a run over more than 5 rows that has answered after two
\* batches with both failed and successful tasks.
C37_Witness ==
    \E b \in 1..Len(bf) :
        /\ bf[b].pc = "done"
        /\ bf[b].status = 200
        /\ Len(bf[b].all) > 5
        /\ bf[b].batches = 2
        /\ bf[b].errors >= 1
        /\ bf[b].processed >= 1

\* The tasks of run b that have been started and have not settled
InFlight(b) == Len(bf[b].started) - bf[b].finished

\* C13: within a run at most 5 embed+write tasks are in flight at any time;
\* when a task of batch m+1 has been started, all 5m tasks of the batches
\* before it have settled; tasks are started in ascending id order, 5 per
\* batch.
C13_BatchBarrier ==
    \A b \in 1..Len(bf) :
        /\ InFlight(b) <= 5
        /\ InFlight(b) =
              Cardinality({k \in DOMAIN bf[b].task : bf[b].task[k] \in {"embed", "insert"}})
        /\ \A m \in 1..Len(bf[b].started) :
              Len(bf[b].started) > 5 * m => bf[b].finished >= 5 * m
        /\ \A j, k \in 1..Len(bf[b].started) : j < k => bf[b].started[j] < bf[b].started[k]
        /\ bf[b].pc = "batch" =>
              /\ bf[b].started = SubSeq(IdsRead(b), 1, Len(bf[b].started))
              /\ Len(bf[b].started) = Min(5 * bf[b].batches, Len(bf[b].all))

\* C13 witness: a task of the second batch in flight, in a run whose first
\* batch had a failed task.
C13_Witness ==
    \E b \in 1..Len(bf) :
        /\ bf[b].pc = "batch"
        /\ bf[b].batches = 2
        /\ InFlight(b) >= 1
        /\ bf[b].errors >= 1

C20_EmptyStoreBackfill ==
    \A b \in 1..Len(bf) :
        BfAnswered200(b) /\ Len(bf[b].all) = 0 =>
            /\ {"processed", "errors", "total"} \subseteq bf[b].keys
            /\ bf[b].processed = 0 /\ bf[b].errors = 0 /\ bf[b].total = 0
            /\ bf[b].started = <<>>
            /\ bf[b].finished = 0
            /\ vectors = <<>>

-----------------------------------------------------------------------------
(* Properties of the table and the index together *)

\* C15: in every state, under every interleaving of submissions and backfill
\* runs, every id in the vector index is the decimal string of the id of a
\* row that is in the table.
C15_VectorOnlyAfterRecord ==
    \A s \in DOMAIN vectors :
        \E j \in 1..Len(feedback) : s = ToStr(feedback[j].id)

\* C15 witness: a submission stored its row, a backfill run read that row and
\* wrote its vector while the submission's own write was pending, and the
\* submission's write then failed.
C15_Witness ==
    \E r \in 1..Len(post) :
        /\ Inserted(r)
        /\ "vector" \in post[r].failed
        /\ ToStr(post[r].id) \in DOMAIN vectors
        /\ vectors[ToStr(post[r].id)].metadata.timestamp = "backfill"

\* C19: a submission whose body has no non-empty source or no non-empty
\* message is answered 400 and changes nothing: the sentiment model is not
\* called, no row is inserted, no vector is written, no workflow is created.
C19_SubmissionValidation ==
    \A r \in 1..Len(post) :
        post[r].body.source = "" \/ post[r].body.message = "" =>
            /\ post[r].pc = "done"
            /\ post[r].status = 400
            /\ post[r].aiCalls = 0
            /\ post[r].id = 0
            /\ Len(created) = 0
            /\ \A s \in DOMAIN vectors : vectors[s].metadata.timestamp # "post"

\* The VECTORIZE.insert calls that have been issued and have not settled:
\* which operation issued each and for which row id
WritesPending ==
    {<<"post", r, 0, post[r].id>> : r \in {q \in 1..Len(post) : post[q].pc = "vector"}}
    \cup UNION {{<<"backfill", b, k, bf[b].all[bf[b].i + k].id>> :
                    k \in {j \in DOMAIN bf[b].task : bf[b].task[j] = "insert"}} :
                 b \in {c \in 1..Len(bf) : bf[c].pc = "batch"}}

\* C22: under every interleaving of submissions and backfill runs, no two
\* operations have a vector write pending for the same row id at the same
\* time.
C22_NoSameIdWriteRace ==
    \A w1, w2 \in WritesPending : w1 # w2 => w1[4] # w2[4]

\* C24: the ids of the stored rows are pairwise distinct, and no step of a
\* submission or a backfill run changes the id, message, source or sentiment
\* of a row that is stored, or removes one: every row stays as it is.
C24_AppendOnly ==
    /\ [](\A i, j \in 1..Len(feedback) : i # j => feedback[i].id # feedback[j].id)
    /\ [][\A i \in 1..Len(feedback) :
             /\ i <= Len(feedback')
             /\ feedback'[i] = feedback[i]]_vars

\* C24 witness: a table that held a row from the start, to which a submission
\* added a row, and over which a backfill run has written a vector.
C24_Witness ==
    /\ Len(feedback) >= 2
    /\ \E r \in 1..Len(post) : post[r].id = 2
    /\ \E b \in 1..Len(bf) : bf[b].pc = "done" /\ bf[b].processed >= 1

-----------------------------------------------------------------------------
(* Properties of the router *)

\* C26: a request with method OPTIONS, whatever its path, is answered with an
\* empty body, status 200 and the three CORS headers without a handler being
\* called; and every response of the worker carries the three CORS headers.
C26_CorsPreflight ==
    \A e \in 1..Len(http) :
        /\ http[e].method = "OPTIONS" =>
              /\ http[e].pc = "done"
              /\ http[e].status = 200
              /\ http[e].body = ""
              /\ ~http[e].invoked
        /\ http[e].pc = "done" =>
              {"Access-Control-Allow-Origin", "Access-Control-Allow-Methods",
               "Access-Control-Allow-Headers"} \subseteq http[e].headers

\* C26 witness: an OPTIONS request to a path that has a handler, answered,
\* and a 500 response of a handler.
C26_Witness ==
    /\ \E e \in 1..Len(http) :
          http[e].method = "OPTIONS" /\ http[e].path = "/api/feedback"
    /\ \E e \in 1..Len(http) :
          http[e].pc = "done" /\ http[e].status = 500

-----------------------------------------------------------------------------
(* Properties of extractKeywords *)

\* The words of the messages, in reading order, that are counted
RECURSIVE KeptWords(_)
KeptWords(list) ==
    IF list = <<>> THEN <<>>
    ELSE SelectSeq(MatchWords(ToLowerCase(list[1])), LAMBDA w : w \notin commonWords)
            \o KeptWords(Tail(list))

Occurrences(w, words) == Cardinality({k \in 1..Len(words) : words[k] = w})

FirstSeen(w, words) ==
    CHOOSE k \in 1..Len(words) : words[k] = w /\ \A j \in 1..(k - 1) : words[j] # w

\* a is ahead of b: more occurrences, or as many and seen first
Ahead(a, b, words) ==
    \/ Occurrences(a, words) > Occurrences(b, words)
    \/ /\ Occurrences(a, words) = Occurrences(b, words)
       /\ FirstSeen(a, words) < FirstSeen(b, words)

\* result is the up to three most frequent counted words of the list, each
\* with its number of occurrences, in descending order, ties by first seen
TopThreeCounted(result, list) ==
    LET words    == KeptWords(list)
        distinct == {words[k] : k \in 1..Len(words)}
        chosen   == {result[i].feature : i \in 1..Len(result)}
    IN  /\ Len(result) = IF Cardinality(distinct) < 3 THEN Cardinality(distinct) ELSE 3
        /\ \A i \in 1..Len(result) :
              /\ result[i].feature \in distinct
              /\ result[i].mentions.kind = "number"
              /\ result[i].mentions.n = Occurrences(result[i].feature, words)
        /\ \A i, j \in 1..Len(result) :
              i < j => Ahead(result[i].feature, result[j].feature, words)
        /\ \A w \in distinct \ chosen :
              \A i \in 1..Len(result) : Ahead(result[i].feature, w, words)

\* C30: for every list of messages, every result extractKeywords returns is
\* the at most three most frequent words of three or more letters a-z of the
\* lower-cased messages, the stop words left out, each with its count, in
\* descending count order with ties broken by which word was seen first; and
\* two calls with the same list return the same result.
C30_KeywordFallback ==
    /\ \A c \in 1..Len(features.results) :
          TopThreeCounted(features.results[c], features.list)
    /\ features.pc = "done" => features.results[1] = features.results[2]

-----------------------------------------------------------------------------
(* Properties of extractFeatures and GET /api/analyze-features *)

\* A list of at most 3 entries, each a feature text with a number of mentions
FeatureList(result) ==
    /\ Len(result) <= 3
    /\ \A k \in 1..Len(result) :
          /\ result[k].feature # <<>>
          /\ result[k].mentions.kind = "number"

\* The model answered, and its answer is not one parseable array of objects
Unparseable(out) ==
    \/ out.kind = "notstring"
    \/ /\ out.kind = "text"
       /\ out.text # <<>>
       /\ LET text == SelectSeq(out.text, LAMBDA tok : tok.t \notin {"fence json", "fence"})
          IN  \/ Len(text) # 1
              \/ text[1].t = "garbage"
              \/ \E k \in 1..Len(text[1].items) : text[1].items[k].t = "null"

\* C31: for every outcome of the model call, extractFeatures returns a list of
\* at most 3 entries with a string feature and a numeric mentions; when the
\* output cannot be parsed the list is a result of the keyword fallback on the
\* input messages; and GET /api/analyze-features is answered 500 only when
\* reading the table failed.
C31_FeatureExtractionContained ==
    /\ features.pc \in {"worst", "done"} /\ features.failed = "" =>
          /\ FeatureList(features.bestFeatures)
          /\ features.positive # <<>> /\ Unparseable(features.aiBest) =>
                features.bestFeatures \in extractKeywords(features.positive)
    /\ features.pc = "done" /\ features.failed = "" =>
          /\ FeatureList(features.worstFeatures)
          /\ features.negative # <<>> /\ Unparseable(features.aiWorst) =>
                features.worstFeatures \in extractKeywords(features.negative)
    /\ features.pc = "done" =>
          /\ features.status \in {200, 500}
          /\ features.status = 500 <=> features.failed = "select"

-----------------------------------------------------------------------------
(* Properties of GET /api/feedback *)

\* The sum of the counts of the groups in keys
RECURSIVE SumOfCounts(_, _)
SumOfCounts(stats, keys) ==
    IF keys = {} THEN 0
    ELSE LET v == CHOOSE x \in keys : TRUE
         IN  stats[v] + SumOfCounts(stats, keys \ {v})

\* C34: in every 200 response of GET /api/feedback, whatever submissions are
\* made meanwhile and whichever statistics query fails, stats.total is the
\* number of records in feedback, the sum of the bySource counts and the sum
\* of the bySentiment counts.
C34_ListingConsistency ==
    listing.pc = "done" /\ listing.status = 200 =>
        /\ listing.total = Cardinality(listing.results)
        /\ listing.total = SumOfCounts(listing.sourceStats, DOMAIN listing.sourceStats)
        /\ listing.total = SumOfCounts(listing.sentimentStats,
                                       DOMAIN listing.sentimentStats)

=============================================================================
